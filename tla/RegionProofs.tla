---------------------------- MODULE RegionProofs ----------------------------
(***************************************************************************)
(* What the operations of the region library do to the pixels that a       *)
(* region covers, for every two regions.  The loops are recursive          *)
(* functions on walks: While shows that they have a result if every turn   *)
(* makes the walk shorter, and Induction carries over to the result what   *)
(* every turn keeps.  The lists of both levels are treated at once: K is   *)
(* the set of what a span may hold for a point to count as covered.        *)
(***************************************************************************)
EXTENDS Region, FiniteSetTheorems, SequenceTheorems, TLAPS

\* A set of numbers that is not empty has a least one.
LEMMA Least ==
  ASSUME NEW T \in SUBSET Nat, T # {}
  PROVE  \E x \in T : \A y \in T : x <= y
<1> DEFINE I == {1..n : n \in T}
           F == FiniteSubsetsOf(Nat)
           R == StrictSubsetOrdering(Nat)
<1>1. \A n \in Nat : 1..n \in F
  BY FS_Interval DEF FiniteSubsetsOf
<1>2. I \subseteq F /\ I # {}
  BY <1>1, Zenon
<1>3. \A m, n \in Nat : m < n => <<1..m, 1..n>> \in R
  <2> SUFFICES ASSUME NEW m \in Nat, NEW n \in Nat, m < n PROVE <<1..m, 1..n>> \in R
    OBVIOUS
  <2>1. n \in 1..n /\ n \notin 1..m /\ 1..m \subseteq 1..n
    OBVIOUS
  <2>2. 1..m # 1..n
    BY <2>1
  <2>3. 1..m \in SUBSET Nat /\ 1..n \in SUBSET Nat
    OBVIOUS
  <2> QED BY <2>1, <2>2, <2>3 DEF StrictSubsetOrdering
<1> HIDE DEF R, F
<1>4. \E X \in I : \A Y \in I : <<Y, X>> \notin R
  <2>1. IsWellFoundedOn(R, F)
    BY FS_StrictSubsetOrderingWellFounded DEF R, F
  <2> HIDE DEF I
  <2> QED BY <1>2, <2>1, WFMin
<1>5. PICK x \in T : \A y \in T : <<1..y, 1..x>> \notin R
  BY <1>4, Zenon
<1>6. \A y \in T : ~(y < x)
  BY <1>3, <1>5, Zenon
<1> QED BY <1>6

\* Induction along a measure m.
LEMMA Induction ==
  ASSUME NEW X, NEW m \in [X -> Nat], NEW G,
         \A x \in X : (\A z \in X : m[z] < m[x] => z \in G) => x \in G
  PROVE  X \subseteq G
<1> SUFFICES ASSUME NEW b \in X, b \notin G PROVE FALSE
  OBVIOUS
<1> DEFINE T == {m[x] : x \in X \ G}
<1>1. PICK n \in T : \A k \in T : n <= k
  <2>1. T \in SUBSET Nat /\ T # {}
    OBVIOUS
  <2> HIDE DEF T
  <2> QED BY <2>1, Least
<1>2. PICK x \in X \ G : m[x] = n
  OBVIOUS
<1>3. ASSUME NEW z \in X, m[z] < m[x], z \notin G PROVE FALSE
  <2>1. m[z] \in T /\ m[z] \in Nat /\ n \in Nat
    BY <1>2, <1>3
  <2>2. n <= m[z] /\ m[z] < n
    BY <1>1, <1>2, <1>3, <2>1
  <2> HIDE DEF T
  <2> QED BY <2>1, <2>2
<1> QED BY <1>2, <1>3

\* A function may be defined by recursion along a measure m: D gives the
\* value at a point from the function, of which it uses only what is below.
Determined(X, Y, m, D) ==
    \A f, g \in [X -> Y] : \A x \in X :
        (\A z \in X : m[z] < m[x] => f[z] = g[z]) => D[f][x] = D[g][x]

Solves(X, D, f) == \A x \in X : f[x] = D[f][x]

\* A recursive definition in which every value is determined by those of
\* smaller measure has a solution: CHOOSE finds one.
LEMMA Recursion ==
  ASSUME NEW X, NEW Y, Y # {}, NEW m \in [X -> Nat],
         NEW D \in [[X -> Y] -> [X -> Y]], Determined(X, Y, m, D)
  PROVE  \E f \in [X -> Y] : Solves(X, D, f)
<1> DEFINE G(n) == {f \in [X -> Y] : \A x \in X : m[x] < n => f[x] = D[f][x]}
<1>1. \A n \in Nat : G(n) # {}
  <2> DEFINE H == {n \in Nat : G(n) # {}}
  <2> DEFINE id == [n \in Nat |-> n]
  <2>1. ASSUME NEW n \in Nat, \A k \in Nat : k < n => k \in H PROVE n \in H
    <3>1. CASE n = 0
      <4>1. PICK y \in Y : TRUE
        OBVIOUS
      <4>2. \A x \in X : ~(m[x] < 0)
        <5>1. \A x \in X : m[x] \in Nat
          OBVIOUS
        <5> QED BY <5>1
      <4>3. [x \in X |-> y] \in [X -> Y]
        OBVIOUS
      <4>4. [x \in X |-> y] \in G(0)
        BY <4>2, <4>3
      <4> QED BY <3>1, <4>4
    <3>2. CASE n # 0
      <4>1. n - 1 \in H
        <5>1. n - 1 \in Nat /\ n - 1 < n
          BY <3>2
        <5> HIDE DEF H
        <5> QED BY <2>1, <5>1
      <4>2. PICK f \in G(n - 1) : TRUE
        BY <4>1
      <4> DEFINE g == [x \in X |-> IF m[x] < n - 1 THEN f[x] ELSE D[f][x]]
      <4>3. f \in [X -> Y] /\ g \in [X -> Y]
        BY <4>2
      <4>4. ASSUME NEW x \in X, m[x] < n PROVE g[x] = D[f][x] /\ D[f][x] = D[g][x]
        <5>1. g[x] = D[f][x]
          BY <4>2
        <5>2. ASSUME NEW z \in X, m[z] < m[x] PROVE f[z] = g[z]
          <6>1. m[z] \in Nat /\ m[x] \in Nat
            OBVIOUS
          <6>2. m[z] < n - 1
            BY <4>4, <5>2, <6>1
          <6> QED BY <4>2, <6>2
        <5> QED BY <4>3, <5>1, <5>2 DEF Determined
      <4>5. g \in G(n)
        BY <4>3, <4>4
      <4> QED BY <4>5
    <3> QED BY <3>1, <3>2
  <2>2. Nat \subseteq H
    <3> HIDE DEF H
    <3>1. id \in [Nat -> Nat]
      OBVIOUS
    <3>2. \A x \in Nat : (\A z \in Nat : id[z] < id[x] => z \in H) => x \in H
      BY <2>1
    <3> HIDE DEF id
    <3> QED BY <3>1, <3>2, Induction
  <2> QED BY <2>2
<1>2. ASSUME NEW j \in Nat, NEW k \in Nat, j <= k, NEW f \in G(j), NEW g \in G(k)
      PROVE  \A x \in X : m[x] < j => f[x] = g[x]
  <2> DEFINE S == {x \in X : m[x] < j => f[x] = g[x]}
  <2>1. ASSUME NEW x \in X, \A z \in X : m[z] < m[x] => z \in S PROVE x \in S
    <3> SUFFICES ASSUME m[x] < j PROVE f[x] = g[x]
      OBVIOUS
    <3>0. \A z \in X : m[z] \in Nat
      OBVIOUS
    <3>1. ASSUME NEW z \in X, m[z] < m[x] PROVE f[z] = g[z]
      <4>1. m[z] < j
        BY <3>0, <3>1
      <4> QED BY <2>1, <3>1, <4>1
    <3>2. D[f][x] = D[g][x]
      BY <1>2, <3>1 DEF Determined
    <3>3. m[x] < k
      BY <3>0, <1>2
    <3>4. f[x] = D[f][x] /\ g[x] = D[g][x]
      BY <1>2, <3>3
    <3> QED BY <3>2, <3>4
  <2>2. X \subseteq S
    <3> HIDE DEF S
    <3> QED BY <2>1, Induction
  <2> QED BY <2>2
<1> DEFINE h(x) == CHOOSE f : f \in G(m[x] + 1)
           F == [x \in X |-> h(x)[x]]
<1>0. \A x \in X : m[x] \in Nat /\ m[x] + 1 \in Nat
  OBVIOUS
<1>3. ASSUME NEW x \in X PROVE h(x) \in G(m[x] + 1)
  <2>1. G(m[x] + 1) # {}
    <3> HIDE DEF G
    <3> QED BY <1>0, <1>1
  <2> HIDE DEF G
  <2> QED BY <2>1
<1>3a. ASSUME NEW x \in X PROVE h(x) \in [X -> Y] /\ h(x)[x] = D[h(x)][x]
  <2>1. h(x) \in G(m[x] + 1)
    BY <1>3, Zenon
  <2>2. m[x] < m[x] + 1
    BY <1>0
  <2> HIDE DEF h
  <2> QED BY <2>1, <2>2
<1> HIDE DEF h
<1>4. F \in [X -> Y]
  BY <1>3a
<1>5. ASSUME NEW x \in X PROVE F[x] = D[F][x]
  <2>1. h(x) \in [X -> Y] /\ h(x)[x] = D[h(x)][x]
    BY <1>3a
  <2>2. ASSUME NEW z \in X, m[z] < m[x] PROVE F[z] = h(x)[z]
    <3>1. /\ m[z] + 1 \in Nat /\ m[x] + 1 \in Nat /\ m[z] + 1 <= m[x] + 1 /\ m[z] < m[z] + 1
          /\ h(z) \in G(m[z] + 1) /\ h(x) \in G(m[x] + 1)
      <4>1. h(z) \in G(m[z] + 1) /\ h(x) \in G(m[x] + 1)
        BY <1>3
      <4> HIDE DEF G
      <4> QED BY <1>0, <2>2, <4>1
    <3> HIDE DEF G
    <3>2. h(z)[z] = h(x)[z]
      BY <3>1, <1>2
    <3> QED BY <3>2
  <2>3. D[F][x] = D[h(x)][x]
    BY <1>4, <2>1, <2>2, Zenon DEF Determined
  <2> QED BY <2>1, <2>3
<1>6. Solves(X, D, F)
  BY <1>5 DEF Solves
<1> HIDE DEF F
<1> QED BY <1>4, <1>6

Loops(X, E, res, step, f) ==
    f = [x \in X |-> IF x \in E THEN res[x] ELSE f[step[x]]]

\* A loop whose step makes the measure smaller comes to its end.
LEMMA While ==
  ASSUME NEW X, NEW Y, Y # {}, NEW m \in [X -> Nat], NEW E,
         NEW res \in [X -> Y], NEW step \in [X -> X],
         \A x \in X : x \notin E => m[step[x]] < m[x]
  PROVE  \E f \in [X -> Y] : Loops(X, E, res, step, f)
<1> DEFINE D == [f \in [X -> Y] |-> [x \in X |-> IF x \in E THEN res[x] ELSE f[step[x]]]]
<1>1. D \in [[X -> Y] -> [X -> Y]]
  OBVIOUS
<1>2. Determined(X, Y, m, D)
  BY DEF Determined
<1>3. PICK f \in [X -> Y] : Solves(X, D, f)
  <2> HIDE DEF D
  <2> QED BY <1>1, <1>2, Recursion, Zenon
<1>4. Loops(X, E, res, step, f)
  BY <1>3 DEF Solves, Loops
<1> QED BY <1>3, <1>4

SpanOf(T)  == [start : Int, end : Int, sub : T]
ListsOf(T) == Seq(SpanOf(T))

InSpan(x, K, p) == x.start <= p /\ p < x.end /\ x.sub \in K
In(l, K, p)     == \E x \in ToSet(l) : InSpan(x, K, p)
Until(l, n)     == \A x \in ToSet(l) : x.end <= n
From(l, n)      == \A x \in ToSet(l) : n <= x.start

\* The elements of two sequences in one.
LEMMA Join ==
  ASSUME NEW S, NEW a \in Seq(S), NEW b \in Seq(S)
  PROVE  /\ a \o b \in Seq(S) /\ Len(a \o b) = Len(a) + Len(b)
         /\ Len(a) \in Nat /\ Len(b) \in Nat /\ Len(a \o b) \in Nat
         /\ DOMAIN a = 1..Len(a) /\ DOMAIN b = 1..Len(b)
         /\ DOMAIN (a \o b) = 1..(Len(a) + Len(b))
         /\ \A i \in DOMAIN a : i \in DOMAIN (a \o b) /\ (a \o b)[i] = a[i]
         /\ \A j \in DOMAIN b : Len(a) + j \in DOMAIN (a \o b) /\ (a \o b)[Len(a) + j] = b[j]
         /\ \A k \in DOMAIN (a \o b) : k \in DOMAIN a \/ (k > Len(a) /\ k - Len(a) \in DOMAIN b)
         /\ \A k \in DOMAIN (a \o b) : k > Len(a) => (a \o b)[k] = b[k - Len(a)]
<1>1. /\ a \o b \in Seq(S) /\ Len(a \o b) = Len(a) + Len(b)
      /\ Len(a) \in Nat /\ Len(b) \in Nat
      /\ DOMAIN a = 1..Len(a) /\ DOMAIN b = 1..Len(b) /\ DOMAIN (a \o b) = 1..Len(a \o b)
      /\ \A i \in 1 .. Len(a) + Len(b) : (a \o b)[i] = IF i <= Len(a) THEN a[i] ELSE b[i - Len(a)]
  BY ConcatProperties, LenProperties
<1> DEFINE m == Len(a)
           n == Len(b)
<1>2. m \in Nat /\ n \in Nat
  BY <1>1
<1> HIDE DEF m, n
<1>3. /\ \A i \in 1..m : i \in 1..(m + n) /\ i <= m
      /\ \A j \in 1..n : m + j \in 1..(m + n) /\ ~(m + j <= m) /\ (m + j) - m = j
      /\ \A k \in 1..(m + n) : k \in 1..m \/ (k > m /\ k - m \in 1..n)
      /\ \A k \in 1..(m + n) : k > m => ~(k <= m)
      /\ m + n \in Nat
  BY <1>2
<1> QED BY <1>1, <1>3 DEF m, n

\* The members of two sequences in one.
LEMMA JoinSet ==
  ASSUME NEW S, NEW a \in Seq(S), NEW b \in Seq(S)
  PROVE  ToSet(a \o b) = ToSet(a) \cup ToSet(b)
<1>1. ASSUME NEW x \in ToSet(a \o b) PROVE x \in ToSet(a) \cup ToSet(b)
  <2>1. PICK k \in DOMAIN (a \o b) : x = (a \o b)[k]
    BY DEF ToSet
  <2>2. CASE k \in DOMAIN a
    BY <2>1, <2>2, Join DEF ToSet
  <2>3. CASE k > Len(a) /\ k - Len(a) \in DOMAIN b
    BY <2>1, <2>3, Join DEF ToSet
  <2> QED BY <2>2, <2>3, Join
<1>2. ASSUME NEW x \in ToSet(a) PROVE x \in ToSet(a \o b)
  <2>1. PICK i \in DOMAIN a : x = a[i]
    BY DEF ToSet
  <2>2. i \in DOMAIN (a \o b) /\ (a \o b)[i] = x
    BY <2>1, Join
  <2> QED BY <2>2 DEF ToSet
<1>3. ASSUME NEW x \in ToSet(b) PROVE x \in ToSet(a \o b)
  <2>1. PICK i \in DOMAIN b : x = b[i]
    BY DEF ToSet
  <2>2. Len(a) + i \in DOMAIN (a \o b) /\ (a \o b)[Len(a) + i] = x
    BY <2>1, Join
  <2> QED BY <2>2 DEF ToSet
<1> QED BY <1>1, <1>2, <1>3

\* The members of a sequence of one and of none.
LEMMA JoinOne ==
  ASSUME NEW x
  PROVE  ToSet(<<x>>) = {x} /\ ToSet(<<>>) = {}
<1>1. DOMAIN <<x>> = {1} /\ <<x>>[1] = x
  OBVIOUS
<1>2. DOMAIN <<>> = {}
  OBVIOUS
<1> QED BY <1>1, <1>2 DEF ToSet

\* Two lists of spans in one: its bounds, and what it holds.
LEMMA ListJoin ==
  ASSUME NEW T, NEW a \in ListsOf(T), NEW b \in ListsOf(T)
  PROVE  /\ a \o b \in ListsOf(T) /\ Len(a \o b) = Len(a) + Len(b)
         /\ Len(a) \in Nat /\ Len(b) \in Nat
         /\ \A n : Until(a \o b, n) <=> Until(a, n) /\ Until(b, n)
         /\ \A n : From(a \o b, n) <=> From(a, n) /\ From(b, n)
         /\ \A K, p : In(a \o b, K, p) <=> In(a, K, p) \/ In(b, K, p)
<1>1. ToSet(a \o b) = ToSet(a) \cup ToSet(b)
  BY JoinSet DEF ListsOf
<1>2. \A n : Until(a \o b, n) <=> Until(a, n) /\ Until(b, n)
  BY <1>1 DEF Until
<1>3. \A n : From(a \o b, n) <=> From(a, n) /\ From(b, n)
  BY <1>1 DEF From
<1>4. \A K, p : In(a \o b, K, p) <=> In(a, K, p) \/ In(b, K, p)
  BY <1>1 DEF In
<1> QED BY <1>2, <1>3, <1>4, Join DEF ListsOf

\* Two lists in order are in order together if one ends before the other begins.
LEMMA OrderJoin ==
  ASSUME NEW T, NEW a \in ListsOf(T), NEW b \in ListsOf(T)
  PROVE  /\ InOrder(a \o b) => InOrder(a) /\ InOrder(b)
         /\ InOrder(a \o b) => \A x \in ToSet(a), y \in ToSet(b) : x.end <= y.start
         /\ \A n \in Int : InOrder(a) /\ InOrder(b) /\ Until(a, n) /\ From(b, n) => InOrder(a \o b)
<1> DEFINE c == a \o b
<1>1. a \in Seq(SpanOf(T)) /\ b \in Seq(SpanOf(T))
  BY DEF ListsOf
<1>2. /\ Len(a) \in Nat /\ Len(b) \in Nat
      /\ DOMAIN a = 1..Len(a) /\ DOMAIN b = 1..Len(b) /\ DOMAIN c = 1..(Len(a) + Len(b))
  BY <1>1, Join
<1>3. \A i \in DOMAIN a : i \in DOMAIN c /\ c[i] = a[i]
  BY <1>1, Join
<1>4. \A j \in DOMAIN b : Len(a) + j \in DOMAIN c /\ c[Len(a) + j] = b[j]
  BY <1>1, Join
<1>5. ASSUME NEW k \in DOMAIN c
      PROVE  \/ k \in DOMAIN a /\ c[k] = a[k]
             \/ k > Len(a) /\ k - Len(a) \in DOMAIN b /\ c[k] = b[k - Len(a)]
  BY <1>1, <1>3, Join
<1> HIDE DEF c
<1>6. ASSUME InOrder(c) PROVE InOrder(a) /\ InOrder(b)
  <2>1. InOrder(a)
    BY <1>3, <1>6 DEF InOrder
  <2>2. ASSUME NEW i \in DOMAIN b PROVE b[i].start < b[i].end
    BY <1>4, <1>6 DEF InOrder
  <2>3. ASSUME NEW i \in DOMAIN b, NEW j \in DOMAIN b, i < j PROVE b[i].end <= b[j].start
    <3>1. Len(a) + i < Len(a) + j
      BY <1>2, <2>3
    <3> QED BY <1>4, <1>6, <3>1 DEF InOrder
  <2> QED BY <2>1, <2>2, <2>3 DEF InOrder
<1>7. ASSUME InOrder(c), NEW x \in ToSet(a), NEW y \in ToSet(b) PROVE x.end <= y.start
  <2>1. PICK i \in DOMAIN a, j \in DOMAIN b : x = a[i] /\ y = b[j]
    BY DEF ToSet
  <2>2. i < Len(a) + j
    BY <1>2
  <2> QED BY <1>3, <1>4, <1>7, <2>1, <2>2 DEF InOrder
<1>8. ASSUME NEW n \in Int, InOrder(a), InOrder(b), Until(a, n), From(b, n) PROVE InOrder(c)
  <2>1. \A k \in DOMAIN c : c[k].start < c[k].end
    BY <1>5, <1>8 DEF InOrder
  <2>2. ASSUME NEW i \in DOMAIN c, NEW j \in DOMAIN c, i < j PROVE c[i].end <= c[j].start
    <3>1. CASE i \in DOMAIN a /\ j \in DOMAIN a
      BY <1>3, <1>8, <2>2, <3>1 DEF InOrder
    <3>2. CASE i \in DOMAIN a /\ j \notin DOMAIN a
      <4>1. c[i] = a[i] /\ c[i] \in ToSet(a) /\ c[j] \in ToSet(b)
        BY <1>3, <1>5, <3>2 DEF ToSet
      <4>2. c[i].end <= n /\ n <= c[j].start
        BY <1>8, <4>1 DEF Until, From
      <4>3. c[i] \in SpanOf(T) /\ c[j] \in SpanOf(T)
        BY <1>1, <1>3, <1>5, <3>2, ElementOfSeq, LenProperties
      <4>4. c[i].end \in Int /\ c[j].start \in Int
        BY <4>3 DEF SpanOf
      <4> QED BY <4>2, <4>4
    <3>3. CASE i \notin DOMAIN a
      <4>1. j \notin DOMAIN a
        BY <1>2, <2>2, <3>3
      <4>2. i - Len(a) \in DOMAIN b /\ c[i] = b[i - Len(a)] /\ j - Len(a) \in DOMAIN b /\ c[j] = b[j - Len(a)]
        BY <1>5, <3>3, <4>1
      <4>3. i - Len(a) < j - Len(a)
        BY <1>2, <2>2
      <4> QED BY <1>8, <4>2, <4>3 DEF InOrder
    <3> QED BY <3>1, <3>2, <3>3
  <2> QED BY <2>1, <2>2 DEF InOrder
<1> QED BY <1>6, <1>7, <1>8 DEF c

\* The empty list.
LEMMA ListNone ==
  /\ \A T : <<>> \in ListsOf(T)
  /\ Len(<<>>) = 0 /\ InOrder(<<>>)
  /\ \A n : Until(<<>>, n) /\ From(<<>>, n)
  /\ \A K, p : ~In(<<>>, K, p)
<1>1. DOMAIN <<>> = {} /\ ToSet(<<>>) = {}
  <2>1. ToSet(<<>>) = {}
    BY JoinOne, Zenon
  <2> QED BY <2>1 DEF ToSet
<1> QED BY <1>1 DEF ListsOf, InOrder, Until, From, In

\* A list of one span.
LEMMA ListOne ==
  ASSUME NEW T, NEW x \in SpanOf(T)
  PROVE  /\ <<x>> \in ListsOf(T) /\ Len(<<x>>) = 1 /\ <<x>> # <<>>
         /\ \A n : Until(<<x>>, n) <=> x.end <= n
         /\ \A n : From(<<x>>, n) <=> n <= x.start
         /\ \A K, p : In(<<x>>, K, p) <=> InSpan(x, K, p)
         /\ InOrder(<<x>>) <=> x.start < x.end
<1>1. DOMAIN <<x>> = {1} /\ <<x>>[1] = x /\ ToSet(<<x>>) = {x}
  BY JoinOne
<1>2. <<x>> \in ListsOf(T) /\ Len(<<x>>) = 1 /\ <<x>> # <<>>
  BY DEF ListsOf
<1>3. InOrder(<<x>>) <=> x.start < x.end
  BY <1>1 DEF InOrder
<1>4. \A K, p : In(<<x>>, K, p) <=> InSpan(x, K, p)
  BY <1>1 DEF In
<1> QED BY <1>1, <1>2, <1>3, <1>4 DEF Until, From

\* A span behind a list.
LEMMA ListAppend ==
  ASSUME NEW T, NEW a \in ListsOf(T), NEW x \in SpanOf(T)
  PROVE  /\ a \o <<x>> \in ListsOf(T) /\ Append(a, x) = a \o <<x>>
         /\ Len(a) \in Nat /\ Len(a \o <<x>>) = Len(a) + 1
         /\ \A n : Until(a \o <<x>>, n) <=> Until(a, n) /\ x.end <= n
         /\ \A n : From(a \o <<x>>, n) <=> From(a, n) /\ n <= x.start
         /\ \A K, p : In(a \o <<x>>, K, p) <=> In(a, K, p) \/ InSpan(x, K, p)
<1>1. <<x>> \in ListsOf(T) /\ Len(<<x>>) = 1
  BY ListOne
<1>2. Append(a, x) = a \o <<x>>
  BY AppendIsConcat DEF ListsOf
<1>3. a \o <<x>> \in ListsOf(T) /\ Len(a) \in Nat /\ Len(a \o <<x>>) = Len(a) + 1
  BY <1>1, ListJoin
<1>4. \A n : Until(a \o <<x>>, n) <=> Until(a, n) /\ x.end <= n
  BY <1>1, ListJoin, ListOne, Zenon
<1>5. \A n : From(a \o <<x>>, n) <=> From(a, n) /\ n <= x.start
  BY <1>1, ListJoin, ListOne, Zenon
<1>6. \A K, p : In(a \o <<x>>, K, p) <=> In(a, K, p) \/ InSpan(x, K, p)
  BY <1>1, ListJoin, ListOne, Zenon
<1> QED BY <1>2, <1>3, <1>4, <1>5, <1>6

\* A span before a list.
LEMMA ListPrepend ==
  ASSUME NEW T, NEW a \in ListsOf(T), NEW x \in SpanOf(T)
  PROVE  /\ <<x>> \o a \in ListsOf(T)
         /\ Len(a) \in Nat /\ Len(<<x>> \o a) = Len(a) + 1
         /\ \A n : Until(<<x>> \o a, n) <=> Until(a, n) /\ x.end <= n
         /\ \A n : From(<<x>> \o a, n) <=> From(a, n) /\ n <= x.start
         /\ \A K, p : In(<<x>> \o a, K, p) <=> In(a, K, p) \/ InSpan(x, K, p)
<1>1. <<x>> \in ListsOf(T) /\ Len(<<x>>) = 1
  BY ListOne
<1>3. <<x>> \o a \in ListsOf(T) /\ Len(a) \in Nat /\ Len(<<x>> \o a) = 1 + Len(a)
  BY <1>1, ListJoin
<1>4. \A n : Until(<<x>> \o a, n) <=> Until(a, n) /\ x.end <= n
  BY <1>1, ListJoin, ListOne, Zenon
<1>5. \A n : From(<<x>> \o a, n) <=> From(a, n) /\ n <= x.start
  BY <1>1, ListJoin, ListOne, Zenon
<1>6. \A K, p : In(<<x>> \o a, K, p) <=> In(a, K, p) \/ InSpan(x, K, p)
  BY <1>1, ListJoin, ListOne, Zenon
<1>7. Len(<<x>> \o a) = Len(a) + 1
  BY <1>3
<1> QED BY <1>3, <1>4, <1>5, <1>6, <1>7

\* A list taken apart at its first span.
LEMMA ListHead ==
  ASSUME NEW T, NEW l \in ListsOf(T), l # <<>>
  PROVE  /\ Head(l) \in SpanOf(T) /\ Tail(l) \in ListsOf(T)
         /\ l = <<Head(l)>> \o Tail(l)
         /\ Len(l) = Len(Tail(l)) + 1 /\ Len(Tail(l)) \in Nat
<1>1. /\ Head(l) \in SpanOf(T) /\ Tail(l) \in Seq(SpanOf(T))
      /\ Len(Tail(l)) = Len(l) - 1 /\ Len(l) \in Nat \ {0} /\ Len(Tail(l)) \in Nat
  BY HeadTailProperties, LenProperties, EmptySeq DEF ListsOf
<1>2. l = <<Head(l)>> \o Tail(l)
  <2>1. /\ l \in Seq(SpanOf(T)) /\ Len(l) \in Nat /\ 1 \in 1..Len(l) /\ Len(l) \in 1..Len(l)
    BY <1>1 DEF ListsOf
  <2>2. SubSeq(l, 1, Len(l)) = <<l[1]>> \o SubSeq(l, 1 + 1, Len(l))
    BY <2>1, SubSeqRecursiveFirst
  <2>3. Head(l) = l[1]
    BY <2>1
  <2>4. 1 + 1 = 2
    OBVIOUS
  <2> QED BY <2>1, <2>2, <2>3, <2>4, SubSeqFull, TailIsSubSeq
<1> QED BY <1>1, <1>2 DEF ListsOf

\* A list taken apart at its last span.
LEMMA ListLast ==
  ASSUME NEW T, NEW l \in ListsOf(T), l # <<>>
  PROVE  /\ Last(l) \in SpanOf(T) /\ Front(l) \in ListsOf(T)
         /\ l = Front(l) \o <<Last(l)>>
         /\ Len(l) = Len(Front(l)) + 1 /\ Len(Front(l)) \in Nat
<1>1. /\ l \in Seq(SpanOf(T)) /\ Len(l) \in Nat \ {0} /\ 1 \in 1..Len(l) /\ Len(l) \in 1..Len(l)
  BY LenProperties, EmptySeq DEF ListsOf
<1>2. Last(l) \in SpanOf(T)
  BY <1>1, ElementOfSeq DEF Last
<1>3. SubSeq(l, 1, Len(l)) = SubSeq(l, 1, Len(l) - 1) \o <<l[Len(l)]>>
  BY <1>1, SubSeqRecursiveSecond
<1>4. l = Front(l) \o <<Last(l)>>
  BY <1>1, <1>3, SubSeqFull DEF Front, Last
<1>5. \A i \in 1..(Len(l) - 1) : l[i] \in SpanOf(T)
  BY <1>1, ElementOfSeq
<1>6. /\ Front(l) \in Seq(SpanOf(T))
      /\ Len(Front(l)) = IF 1 <= Len(l) - 1 THEN (Len(l) - 1) - 1 + 1 ELSE 0
  BY <1>1, <1>5, SubSeqProperties DEF Front
<1>7. Len(l) = Len(Front(l)) + 1 /\ Len(Front(l)) \in Nat
  <2> DEFINE n == Len(l)
             m == Len(Front(l))
  <2>1. n \in Nat \ {0} /\ m = IF 1 <= n - 1 THEN (n - 1) - 1 + 1 ELSE 0
    BY <1>1, <1>6
  <2> HIDE DEF n, m
  <2>2. n = m + 1 /\ m \in Nat
    BY <2>1
  <2> QED BY <2>2 DEF n, m
<1> QED BY <1>2, <1>4, <1>6, <1>7 DEF ListsOf

-----------------------------------------------------------------------------
\* Lists of spans that hold nothing, or spans, are among the Lists.
LEMMA BothKinds ==
  /\ Lists = ListsOf(HLists)
  /\ \A T \in SUBSET HLists : ListsOf(T) \subseteq Lists
<1>1. Lists = ListsOf(HLists)
  BY DEF Lists, ListsOf, SpanOf
<1>2. ASSUME NEW T \in SUBSET HLists, NEW l \in ListsOf(T) PROVE l \in Lists
  <2>1. SpanOf(T) \subseteq SpanOf(HLists)
    BY DEF SpanOf
  <2> QED BY <1>1, <2>1, SeqMonotonic DEF ListsOf
<1> QED BY <1>1, <1>2

MP(l) == SubSeq(l, 1, Len(l) - 2) \o <<[l[Len(l)] EXCEPT !.start = l[Len(l) - 1].start]>>
MPEnd == {l \in Lists : ~(Len(l) > 1 /\ Joins(l[Len(l) - 1], l[Len(l)]))}

\* l ends in x and y.
EndsIn(l, a, x, y) ==
    /\ l = (a \o <<x>>) \o <<y>> /\ x = l[Len(l) - 1] /\ y = l[Len(l)]
    /\ MP(l) = a \o <<[y EXCEPT !.start = x.start]>>

\* A list of two or more, taken apart at its last two spans.
LEMMA MPShape ==
  ASSUME NEW T, NEW l \in ListsOf(T), Len(l) > 1
  PROVE  \E a \in ListsOf(T), x \in SpanOf(T), y \in SpanOf(T) : EndsIn(l, a, x, y)
<1> DEFINE n == Len(l)
<1>1. l \in Seq(SpanOf(T)) /\ n \in Nat /\ n > 1
  BY LenProperties DEF ListsOf
<1>2. n - 1 \in 1..n /\ n \in 1..n /\ 1 \in 1..n /\ n - 1 \in 1..(n - 1) /\ (n - 1) - 1 = n - 2
  BY <1>1
<1> HIDE DEF n
<1>3. SubSeq(l, 1, n) = SubSeq(l, 1, n - 1) \o <<l[n]>>
  BY <1>1, <1>2, SubSeqRecursiveSecond, Zenon DEF n
<1>4. SubSeq(l, 1, n - 1) = SubSeq(l, 1, n - 2) \o <<l[n - 1]>>
  <2>1. n - 1 \in 1..Len(l) /\ n - 1 \in 1..(n - 1) /\ 1 \in 1..Len(l) /\ n - 1 \in 1..(n-1)
    BY <1>2 DEF n
  <2>2. SubSeq(l, 1, n - 1) = SubSeq(l, 1, (n - 1) - 1) \o <<l[n - 1]>>
    BY <1>1, <2>1, SubSeqRecursiveSecond
  <2> QED BY <2>2, <1>2, Zenon
<1>5. l = SubSeq(l, 1, n)
  BY <1>1, SubSeqFull DEF n
<1>6. l[n - 1] \in SpanOf(T) /\ l[n] \in SpanOf(T)
  BY <1>1, <1>2, ElementOfSeq DEF n
<1>7. SubSeq(l, 1, n - 2) \in ListsOf(T)
  <2>1. \A i \in 1..(n - 2) : i \in 1..n
    BY <1>1
  <2>2. \A i \in 1..(n - 2) : l[i] \in SpanOf(T)
    BY <1>1, <2>1, ElementOfSeq DEF n
  <2>3. 1 \in Int /\ n - 2 \in Int
    BY <1>1
  <2> QED BY <2>2, <2>3, SubSeqProperties DEF ListsOf
<1>8. EndsIn(l, SubSeq(l, 1, n - 2), l[n - 1], l[n])
  BY <1>3, <1>4, <1>5, Zenon DEF MP, EndsIn, n
<1> QED BY <1>6, <1>7, <1>8

\* Merging makes of l a list m that stands for the same.
Merges(l, m) ==
    /\ m # <<>> /\ Len(m) <= Len(l)
    /\ \A T \in SUBSET HLists : l \in ListsOf(T) => m \in ListsOf(T)
    /\ InOrder(l) => InOrder(m)
    /\ InOrder(l) => \A K : \A p \in Int : In(m, K, p) <=> In(l, K, p)
    /\ InOrder(l) => \A n \in Int : From(l, n) => From(m, n)
    /\ InOrder(l) => \A n \in Int : Until(l, n) => Until(m, n)

MergesPrevious(l, m) ==
    /\ Merges(l, m)
    /\ Last(m).end = Last(l).end /\ Last(m).sub = Last(l).sub
    /\ InOrder(l) => Last(m).start <= Last(l).start
    /\ \A n \in Int : Until(Front(l), n) => Until(Front(m), n)

\* The last span of a list with one appended.
LEMMA LastOne ==
  ASSUME NEW T, NEW a \in ListsOf(T), NEW x \in SpanOf(T)
  PROVE  Last(a \o <<x>>) = x /\ Front(a \o <<x>>) = a /\ a \o <<x>> # <<>>
<1> DEFINE l == a \o <<x>>
<1>1. /\ a \in Seq(SpanOf(T)) /\ <<x>> \in Seq(SpanOf(T)) /\ Len(<<x>>) = 1 /\ <<x>>[1] = x
      /\ Len(a) \in Nat
  BY ListOne, LenProperties DEF ListsOf
<1>2. /\ Len(l) = Len(a) + 1 /\ l \in Seq(SpanOf(T))
      /\ \A i \in 1..Len(a) + 1 : l[i] = IF i <= Len(a) THEN a[i] ELSE <<x>>[i - Len(a)]
  BY <1>1, ConcatProperties
<1> DEFINE n == Len(a)
<1>3. n + 1 \in 1..n + 1 /\ ~(n + 1 <= n) /\ n + 1 - n = 1 /\ n + 1 # 0 /\ n + 1 - 1 = n
  BY <1>1
<1>4. Last(l) = x
  BY <1>1, <1>2, <1>3 DEF Last
<1>5. l # <<>>
  BY <1>2, <1>3, EmptySeq
<1>6. Front(l) = a
  <2>1. \A i \in 1..n : i \in 1..n + 1 /\ i <= n /\ 1 + i - 1 = i /\ n - 1 + 1 = n
    BY <1>1
  <2>2. \A i \in 1..n : l[i] = a[i] /\ l[i] \in SpanOf(T)
    BY <1>1, <1>2, <2>1, ElementOfSeq
  <2> HIDE DEF l
  <2>3. /\ SubSeq(l, 1, n) \in Seq(SpanOf(T))
        /\ Len(SubSeq(l, 1, n)) = IF 1 <= n THEN n - 1 + 1 ELSE 0
        /\ \A i \in 1..n - 1 + 1 : SubSeq(l, 1, n)[i] = l[1 + i - 1]
    BY <1>1, <2>2, SubSeqProperties
  <2> DEFINE m == SubSeq(l, 1, n)
  <2> HIDE DEF m
  <2>4. Len(m) = n
    <3>1. n \in Nat /\ Len(m) = IF 1 <= n THEN n - 1 + 1 ELSE 0
      BY <1>1, <2>3 DEF m
    <3> HIDE DEF n
    <3> QED BY <3>1
  <2>5. \A i \in 1..n : m[i] = a[i]
    BY <1>1, <2>1, <2>2, <2>3 DEF m
  <2>6. m = a
    BY <1>1, <2>3, <2>4, <2>5, SeqEqual DEF m
  <2> QED BY <1>2, <1>3, <2>6 DEF Front, m
<1> QED BY <1>4, <1>5, <1>6

\* The first span of a list with one before it.
LEMMA HeadOne ==
  ASSUME NEW T, NEW a \in ListsOf(T), NEW x \in SpanOf(T)
  PROVE  Head(<<x>> \o a) = x /\ Tail(<<x>> \o a) = a /\ <<x>> \o a # <<>>
<1> DEFINE l == <<x>> \o a
<1>1. /\ a \in Seq(SpanOf(T)) /\ <<x>> \in Seq(SpanOf(T)) /\ Len(<<x>>) = 1 /\ <<x>>[1] = x
      /\ Len(a) \in Nat
  BY ListOne, LenProperties DEF ListsOf
<1>2. /\ Len(l) = 1 + Len(a) /\ l \in Seq(SpanOf(T))
      /\ \A i \in 1..1 + Len(a) : l[i] = IF i <= 1 THEN <<x>>[i] ELSE a[i - 1]
  BY <1>1, ConcatProperties
<1>3. l[1] = x /\ l # <<>>
  BY <1>1, <1>2, EmptySeq
<1>4. Head(l) = x
  BY <1>2, <1>3
<1>5. l = <<Head(l)>> \o Tail(l) /\ Tail(l) \in Seq(SpanOf(T))
  BY <1>2, <1>3, ListHead DEF ListsOf
<1>6. Tail(l) = a
  <2>1. <<x>> \o a = <<x>> \o Tail(l)
    BY <1>4, <1>5
  <2> HIDE DEF l
  <2> QED BY <1>1, <1>5, <2>1, ConcatSimplifications, Zenon
<1> QED BY <1>3, <1>4, <1>6

\* The fields of a span.
LEMMA SpanTypes ==
  ASSUME NEW T, NEW x \in SpanOf(T)
  PROVE  x.start \in Int /\ x.end \in Int /\ x.sub \in T
BY DEF SpanOf

\* When a list stays in order with a span behind it.
LEMMA OrderLast ==
  ASSUME NEW T, NEW a \in ListsOf(T), NEW x \in SpanOf(T)
  PROVE  InOrder(a \o <<x>>) <=> InOrder(a) /\ x.start < x.end /\ Until(a, x.start)
<1>1. /\ <<x>> \in ListsOf(T) /\ ToSet(<<x>>) = {x} /\ x.start \in Int
      /\ InOrder(<<x>>) <=> x.start < x.end
      /\ From(<<x>>, x.start) <=> x.start <= x.start
  BY ListOne, JoinOne, SpanTypes, Zenon
<1>2. ASSUME InOrder(a \o <<x>>) PROVE InOrder(a) /\ x.start < x.end /\ Until(a, x.start)
  BY <1>1, <1>2, OrderJoin DEF Until
<1>3. ASSUME InOrder(a), x.start < x.end, Until(a, x.start) PROVE InOrder(a \o <<x>>)
  BY <1>1, <1>3, OrderJoin
<1> QED BY <1>2, <1>3

\* When a list stays in order with a span before it.
LEMMA OrderFirst ==
  ASSUME NEW T, NEW a \in ListsOf(T), NEW x \in SpanOf(T)
  PROVE  InOrder(<<x>> \o a) <=> InOrder(a) /\ x.start < x.end /\ From(a, x.end)
<1>1. /\ <<x>> \in ListsOf(T) /\ ToSet(<<x>>) = {x} /\ x.end \in Int
      /\ InOrder(<<x>>) <=> x.start < x.end
      /\ Until(<<x>>, x.end) <=> x.end <= x.end
  BY ListOne, JoinOne, SpanTypes, Zenon
<1>2. ASSUME InOrder(<<x>> \o a) PROVE InOrder(a) /\ x.start < x.end /\ From(a, x.end)
  BY <1>1, <1>2, OrderJoin DEF From
<1>3. ASSUME InOrder(a), x.start < x.end, From(a, x.end) PROVE InOrder(<<x>> \o a)
  BY <1>1, <1>3, OrderJoin
<1> QED BY <1>2, <1>3

\* One merge of the last two spans changes nothing of what the list holds.
LEMMA MergePreviousOnce ==
  ASSUME NEW T \in SUBSET HLists, NEW a \in ListsOf(T), NEW x \in SpanOf(T), NEW y \in SpanOf(T),
         Joins(x, y)
  PROVE  /\ MergesPrevious((a \o <<x>>) \o <<y>>, a \o <<[y EXCEPT !.start = x.start]>>)
         /\ a \o <<[y EXCEPT !.start = x.start]>> \in ListsOf(T)
         /\ Len(a \o <<[y EXCEPT !.start = x.start]>>) < Len((a \o <<x>>) \o <<y>>)
<1> DEFINE z == [y EXCEPT !.start = x.start]
           l == (a \o <<x>>) \o <<y>>
           m == a \o <<z>>
<1>1. /\ z.start = x.start /\ z.end = y.end /\ z.sub = y.sub /\ z \in SpanOf(T)
  BY DEF SpanOf
<1>2. x.end = y.start /\ x.sub = y.sub
  BY DEF Joins
<1>3. /\ x.start \in Int /\ x.end \in Int /\ y.start \in Int /\ y.end \in Int
  BY SpanTypes
<1> HIDE DEF z
<1>4. /\ a \o <<x>> \in ListsOf(T) /\ l \in ListsOf(T) /\ m \in ListsOf(T)
      /\ <<x>> \in ListsOf(T) /\ <<y>> \in ListsOf(T) /\ <<z>> \in ListsOf(T)
  BY <1>1, ListOne, ListJoin, Zenon
<1>5. /\ Last(l) = y /\ Front(l) = a \o <<x>> /\ Last(m) = z /\ Front(m) = a /\ m # <<>>
      /\ l # <<>> /\ Last(a \o <<x>>) = x /\ Front(a \o <<x>>) = a /\ a \o <<x>> # <<>>
  BY <1>1, <1>4, LastOne, Zenon
<1>6. Len(m) <= Len(l) /\ Len(m) < Len(l)
  <2>1. /\ Len(a) \in Nat /\ Len(a \o <<x>>) = Len(a) + 1
        /\ Len(l) = Len(a \o <<x>>) + 1 /\ Len(m) = Len(a) + 1
    BY <1>1, <1>4, ListOne, ListJoin
  <2> QED BY <2>1
<1>7. \A U \in SUBSET HLists : l \in ListsOf(U) => m \in ListsOf(U)
  <2> SUFFICES ASSUME NEW U \in SUBSET HLists, l \in ListsOf(U) PROVE m \in ListsOf(U)
    OBVIOUS
  <2>1. Front(l) \in ListsOf(U) /\ Last(l) \in SpanOf(U)
    BY <1>5, ListLast, Zenon
  <2>2. a \o <<x>> \in ListsOf(U) /\ y \in SpanOf(U)
    BY <1>5, <2>1, Zenon
  <2>3. a \in ListsOf(U) /\ x \in SpanOf(U) /\ y \in SpanOf(U)
    <3> HIDE DEF l, m
    <3>1. Front(a \o <<x>>) \in ListsOf(U) /\ Last(a \o <<x>>) \in SpanOf(U)
      BY <1>5, <2>2, ListLast, Zenon
    <3> QED BY <1>5, <2>2, <3>1
  <2>4. z \in SpanOf(U)
    BY <2>3 DEF z, SpanOf
  <2> QED BY <2>3, <2>4, ListOne, ListJoin
<1>8. InOrder(l) => /\ InOrder(a) /\ x.start < x.end /\ Until(a, x.start)
                    /\ x.end <= y.start /\ y.start < y.end
  <2> SUFFICES ASSUME InOrder(l) PROVE /\ InOrder(a) /\ x.start < x.end /\ Until(a, x.start)
                                       /\ x.end <= y.start /\ y.start < y.end
    OBVIOUS
  <2>1. InOrder(a \o <<x>>) /\ y.start < y.end
    BY <1>4, OrderLast
  <2>2. InOrder(a) /\ x.start < x.end /\ Until(a, x.start)
    BY <2>1, OrderLast
  <2> QED BY <1>2, <1>3, <2>1, <2>2
<1>9. InOrder(l) => InOrder(m)
  BY <1>1, <1>3, <1>8, OrderLast
<1>10. ASSUME InOrder(l), NEW K, NEW p \in Int PROVE In(m, K, p) <=> In(l, K, p)
  <2>1. In(m, K, p) <=> In(a, K, p) \/ InSpan(z, K, p)
    BY <1>1, <1>4, ListJoin, ListOne, Zenon
  <2>2. In(l, K, p) <=> In(a, K, p) \/ InSpan(x, K, p) \/ InSpan(y, K, p)
    BY <1>1, <1>4, ListJoin, ListOne, Zenon
  <2>3. InSpan(z, K, p) <=> InSpan(x, K, p) \/ InSpan(y, K, p)
    BY <1>1, <1>2, <1>3, <1>8, <1>10 DEF InSpan
  <2> QED BY <2>1, <2>2, <2>3
<1>11. ASSUME NEW n \in Int PROVE /\ From(l, n) => From(m, n)
                                  /\ Until(l, n) => Until(m, n)
                                  /\ Until(Front(l), n) => Until(Front(m), n)
  <2>1. /\ From(m, n) <=> From(a, n) /\ n <= z.start
        /\ Until(m, n) <=> Until(a, n) /\ z.end <= n
    BY <1>1, <1>4, ListOne, ListJoin, Zenon
  <2>2. /\ From(a \o <<x>>, n) <=> From(a, n) /\ n <= x.start
        /\ Until(a \o <<x>>, n) <=> Until(a, n) /\ x.end <= n
    BY <1>1, <1>4, ListOne, ListJoin, Zenon
  <2>3. /\ From(l, n) <=> From(a \o <<x>>, n) /\ n <= y.start
        /\ Until(l, n) <=> Until(a \o <<x>>, n) /\ y.end <= n
    BY <1>1, <1>4, ListOne, ListJoin, Zenon
  <2> QED BY <1>1, <1>5, <2>1, <2>2, <2>3, Zenon
<1>12. InOrder(l) => Last(m).start <= Last(l).start
  BY <1>1, <1>2, <1>3, <1>5, <1>8
<1>13. MergesPrevious(l, m)
  BY <1>1, <1>5, <1>6, <1>7, <1>9, <1>10, <1>11, <1>12, Zenon DEF MergesPrevious, Merges
<1> QED BY <1>4, <1>6, <1>13 DEF z

\* One merge after another is a merge.
LEMMA MergesTransitive ==
  ASSUME NEW l \in Lists, NEW k \in Lists, NEW m \in Lists, Merges(l, k), Merges(k, m)
  PROVE  Merges(l, m)
<1>1. Len(l) \in Nat /\ Len(k) \in Nat /\ Len(m) \in Nat
  BY LenProperties DEF Lists
<1>2. Len(m) <= Len(l)
  BY <1>1 DEF Merges
<1> QED BY <1>2 DEF Merges

\* So it is at the end of a list.
LEMMA MergesPreviousTransitive ==
  ASSUME NEW l \in Lists, NEW k \in Lists, NEW m \in Lists, l # <<>>,
         MergesPrevious(l, k), MergesPrevious(k, m)
  PROVE  MergesPrevious(l, m)
<1>1. Merges(l, m) /\ k # <<>> /\ m # <<>>
  BY MergesTransitive, Zenon DEF MergesPrevious, Merges
<1>2. Last(l).start \in Int /\ Last(k).start \in Int /\ Last(m).start \in Int
  BY <1>1, BothKinds, ListLast, SpanTypes, Zenon
<1>3. InOrder(l) => Last(m).start <= Last(l).start
  BY <1>2 DEF MergesPrevious, Merges
<1> QED BY <1>1, <1>3 DEF MergesPrevious

\* The recursive definition of MergePrevious holds of what it defines.
LEMMA MergePreviousUnfolds ==
  MergePrevious = [l \in Lists |-> IF Len(l) > 1 /\ Joins(l[Len(l) - 1], l[Len(l)])
                                   THEN MergePrevious[MP(l)] ELSE l]
<1> DEFINE E == MPEnd
           res == [l \in Lists |-> l]
           step == [l \in Lists |-> IF l \in E THEN l ELSE MP(l)]
           m == [l \in Lists |-> Len(l)]
<1>1. ASSUME NEW l \in Lists, l \notin E PROVE MP(l) \in Lists /\ Len(MP(l)) < Len(l)
  <2>1. Len(l) > 1 /\ Joins(l[Len(l) - 1], l[Len(l)])
    BY <1>1 DEF MPEnd
  <2>2. PICK a \in ListsOf(HLists), x \in SpanOf(HLists), y \in SpanOf(HLists) : EndsIn(l, a, x, y)
    BY <2>1, BothKinds, MPShape
  <2>3. Joins(x, y) /\ l = (a \o <<x>>) \o <<y>> /\ MP(l) = a \o <<[y EXCEPT !.start = x.start]>>
    BY <2>1, <2>2, Zenon DEF EndsIn
  <2>4. MP(l) \in ListsOf(HLists) /\ Len(MP(l)) < Len(l)
    BY <2>3, MergePreviousOnce, Zenon
  <2> QED BY <2>4, BothKinds
<1>2. /\ m \in [Lists -> Nat] /\ res \in [Lists -> Lists] /\ step \in [Lists -> Lists] /\ Lists # {}
  <2>1. \A l \in Lists : Len(l) \in Nat
    BY LenProperties DEF Lists
  <2>2. Lists # {}
    BY BothKinds, ListNone
  <2>3. step \in [Lists -> Lists]
    BY <1>1
  <2> QED BY <2>1, <2>2, <2>3
<1>3. \A x \in Lists : x \notin E => m[step[x]] < m[x]
  BY <1>1, <1>2
<1>4. PICK f \in [Lists -> Lists] : Loops(Lists, E, res, step, f)
  <2> HIDE DEF E, res, step, m
  <2> QED BY <1>2, <1>3, While, Zenon
<1>5. f = [l \in Lists |-> IF Len(l) > 1 /\ Joins(l[Len(l) - 1], l[Len(l)])
                          THEN f[MP(l)] ELSE l]
  BY <1>4 DEF MPEnd, Loops
<1>6. \E g : g = [l \in Lists |-> IF Len(l) > 1 /\ Joins(l[Len(l) - 1], l[Len(l)])
                          THEN g[MP(l)] ELSE l]
  BY <1>5
<1> QED BY <1>6, Zenon DEF MergePrevious, MP

\* sraSpanMergePrevious keeps what the list holds, its order and its end.
LEMMA MergePreviousMerges ==
  ASSUME NEW l \in Lists, l # <<>>
  PROVE  MergePrevious[l] \in Lists /\ MergesPrevious(l, MergePrevious[l])
<1> DEFINE G == {k \in Lists : k # <<>> => /\ MergePrevious[k] \in Lists
                                          /\ MergesPrevious(k, MergePrevious[k])}
           m == [k \in Lists |-> Len(k)]
<1>1. ASSUME NEW k \in Lists, \A j \in Lists : Len(j) < Len(k) => j \in G, k # <<>>
      PROVE  MergePrevious[k] \in Lists /\ MergesPrevious(k, MergePrevious[k])
  <2>1. CASE ~(Len(k) > 1 /\ Joins(k[Len(k) - 1], k[Len(k)]))
    <3>1. MergePrevious[k] = k
      BY <2>1, MergePreviousUnfolds
    <3>2. Len(k) <= Len(k) /\ Last(k).start <= Last(k).start
      <4>1. Len(k) \in Nat
        BY LenProperties DEF Lists
      <4>2. Last(k).start \in Int
        BY <1>1, BothKinds, ListLast, SpanTypes, Zenon
      <4> QED BY <4>1, <4>2
    <3> QED BY <1>1, <3>1, <3>2 DEF MergesPrevious, Merges
  <2>2. CASE Len(k) > 1 /\ Joins(k[Len(k) - 1], k[Len(k)])
    <3>1. MergePrevious[k] = MergePrevious[MP(k)]
      BY <2>2, MergePreviousUnfolds
    <3>2. PICK a \in ListsOf(HLists), x \in SpanOf(HLists), y \in SpanOf(HLists) : EndsIn(k, a, x, y)
      BY <2>2, BothKinds, MPShape
    <3>3. Joins(x, y) /\ k = (a \o <<x>>) \o <<y>> /\ MP(k) = a \o <<[y EXCEPT !.start = x.start]>>
      BY <2>2, <3>2, Zenon DEF EndsIn
    <3>4. MergesPrevious(k, MP(k)) /\ MP(k) \in ListsOf(HLists) /\ Len(MP(k)) < Len(k)
      BY <3>3, MergePreviousOnce, Zenon
    <3>8. MP(k) \in Lists /\ MP(k) # <<>>
      BY <3>4, BothKinds DEF MergesPrevious, Merges
    <3>9. MergePrevious[MP(k)] \in Lists /\ MergesPrevious(MP(k), MergePrevious[MP(k)])
      BY <1>1, <3>4, <3>8
    <3> QED BY <1>1, <3>1, <3>4, <3>8, <3>9, MergesPreviousTransitive
  <2> QED BY <2>1, <2>2
<1>2. Lists \subseteq G
  <2>1. m \in [Lists -> Nat]
    BY LenProperties DEF Lists
  <2>2. \A k \in Lists : (\A j \in Lists : m[j] < m[k] => j \in G) => k \in G
    BY <1>1
  <2> HIDE DEF G, m
  <2> QED BY <2>1, <2>2, Induction
<1> QED BY <1>2

-----------------------------------------------------------------------------
MN(l) == <<[l[1] EXCEPT !.end = l[2].end]>> \o Tail(Tail(l))

MergesNext(l, m) ==
    /\ Merges(l, m)
    /\ Head(m).start = Head(l).start /\ Head(m).sub = Head(l).sub
    /\ InOrder(l) => Head(l).end <= Head(m).end
    /\ \A n \in Int : From(Tail(l), n) => From(Tail(m), n)
    /\ Len(m) = Len(l) => m = l

\* l begins with x and y.
BeginsWith(l, x, y, a) ==
    /\ l = <<x>> \o (<<y>> \o a) /\ x = l[1] /\ y = l[2]
    /\ MN(l) = <<[x EXCEPT !.end = y.end]>> \o a

\* A list of two or more, taken apart at its first two spans.
LEMMA MNShape ==
  ASSUME NEW T, NEW l \in ListsOf(T), Len(l) > 1
  PROVE  \E x \in SpanOf(T), y \in SpanOf(T), a \in ListsOf(T) : BeginsWith(l, x, y, a)
<1>1. l \in Seq(SpanOf(T)) /\ Len(l) \in Nat
  BY LenProperties DEF ListsOf
<1>2. l # <<>>
  BY <1>1, EmptySeq
<1>3. /\ Head(l) \in SpanOf(T) /\ Tail(l) \in ListsOf(T)
      /\ l = <<Head(l)>> \o Tail(l)
      /\ Len(l) = Len(Tail(l)) + 1 /\ Len(Tail(l)) \in Nat
  BY <1>2, ListHead
<1>4. Tail(l) # <<>>
  <2>1. Len(<<>>) = 0
    OBVIOUS
  <2>2. Len(Tail(l)) # 0
    BY <1>1, <1>3
  <2> QED BY <2>1, <2>2
<1>5. /\ Head(Tail(l)) \in SpanOf(T) /\ Tail(Tail(l)) \in ListsOf(T)
      /\ Tail(l) = <<Head(Tail(l))>> \o Tail(Tail(l))
  BY <1>3, <1>4, ListHead, Zenon
<1>6. Head(l) = l[1] /\ Head(Tail(l)) = l[2]
  <2>1. Head(l) = l[1]
    BY <1>1, <1>2
  <2>2. Tail(l) \in Seq(SpanOf(T)) /\ 1 \in 1..Len(Tail(l)) /\ 1 + 1 = 2
    BY <1>1, <1>3 DEF ListsOf
  <2>3. Head(Tail(l)) = Tail(l)[1]
    BY <1>4, <2>2
  <2>4. Tail(l)[1] = l[1 + 1]
    BY <1>1, <1>2, <2>2, HeadTailProperties
  <2> QED BY <2>1, <2>2, <2>3, <2>4
<1>7. BeginsWith(l, Head(l), Head(Tail(l)), Tail(Tail(l)))
  BY <1>3, <1>5, <1>6, Zenon DEF BeginsWith, MN
<1> QED BY <1>3, <1>5, <1>7

\* One merge of the first two spans changes nothing of what the list holds.
LEMMA MergeNextOnce ==
  ASSUME NEW T \in SUBSET HLists, NEW a \in ListsOf(T), NEW x \in SpanOf(T), NEW y \in SpanOf(T),
         Joins(x, y)
  PROVE  /\ MergesNext(<<x>> \o (<<y>> \o a), <<[x EXCEPT !.end = y.end]>> \o a)
         /\ <<[x EXCEPT !.end = y.end]>> \o a \in ListsOf(T)
         /\ Len(<<[x EXCEPT !.end = y.end]>> \o a) < Len(<<x>> \o (<<y>> \o a))
<1> DEFINE z == [x EXCEPT !.end = y.end]
           l == <<x>> \o (<<y>> \o a)
           m == <<z>> \o a
<1>1. /\ z.start = x.start /\ z.end = y.end /\ z.sub = x.sub /\ z \in SpanOf(T)
  BY DEF SpanOf
<1>2. x.end = y.start /\ x.sub = y.sub
  BY DEF Joins
<1>3. /\ x.start \in Int /\ x.end \in Int /\ y.start \in Int /\ y.end \in Int
  BY SpanTypes
<1> HIDE DEF z
<1>4. /\ <<y>> \o a \in ListsOf(T) /\ l \in ListsOf(T) /\ m \in ListsOf(T)
  BY <1>1, ListPrepend
<1>5. /\ Head(l) = x /\ Tail(l) = <<y>> \o a /\ Head(m) = z /\ Tail(m) = a /\ m # <<>>
      /\ l # <<>> /\ Head(<<y>> \o a) = y /\ Tail(<<y>> \o a) = a /\ <<y>> \o a # <<>>
  BY <1>1, <1>4, HeadOne
<1>6. Len(m) <= Len(l) /\ Len(m) < Len(l) /\ Len(m) # Len(l)
  <2>1. /\ Len(a) \in Nat /\ Len(<<y>> \o a) = Len(a) + 1
        /\ Len(l) = Len(<<y>> \o a) + 1 /\ Len(m) = Len(a) + 1
    BY <1>1, <1>4, ListPrepend
  <2> QED BY <2>1
<1>7. \A U \in SUBSET HLists : l \in ListsOf(U) => m \in ListsOf(U)
  <2> SUFFICES ASSUME NEW U \in SUBSET HLists, l \in ListsOf(U) PROVE m \in ListsOf(U)
    OBVIOUS
  <2>1. Head(l) \in SpanOf(U) /\ Tail(l) \in ListsOf(U)
    BY <1>5, ListHead, Zenon
  <2>2. <<y>> \o a \in ListsOf(U) /\ x \in SpanOf(U)
    BY <1>5, <2>1, Zenon
  <2>3. a \in ListsOf(U) /\ x \in SpanOf(U) /\ y \in SpanOf(U)
    <3> HIDE DEF l, m
    <3>1. Head(<<y>> \o a) \in SpanOf(U) /\ Tail(<<y>> \o a) \in ListsOf(U)
      BY <1>5, <2>2, ListHead, Zenon
    <3> QED BY <1>5, <2>2, <3>1, Zenon
  <2>4. z \in SpanOf(U)
    BY <2>3 DEF z, SpanOf
  <2> QED BY <2>3, <2>4, ListPrepend
<1>8. InOrder(l) => /\ InOrder(a) /\ x.start < x.end /\ From(a, y.end)
                    /\ x.end <= y.start /\ y.start < y.end
  <2> SUFFICES ASSUME InOrder(l) PROVE /\ InOrder(a) /\ x.start < x.end /\ From(a, y.end)
                                       /\ x.end <= y.start /\ y.start < y.end
    OBVIOUS
  <2>1. InOrder(<<y>> \o a) /\ x.start < x.end
    BY <1>4, OrderFirst
  <2>2. InOrder(a) /\ y.start < y.end /\ From(a, y.end)
    BY <2>1, OrderFirst
  <2> QED BY <1>2, <1>3, <2>1, <2>2
<1>9. InOrder(l) => InOrder(m)
  BY <1>1, <1>2, <1>3, <1>8, OrderFirst
<1>10. ASSUME InOrder(l), NEW K, NEW p \in Int PROVE In(m, K, p) <=> In(l, K, p)
  <2>1. In(m, K, p) <=> In(a, K, p) \/ InSpan(z, K, p)
    BY <1>1, ListPrepend
  <2>2. In(<<y>> \o a, K, p) <=> In(a, K, p) \/ InSpan(y, K, p)
    BY ListPrepend
  <2>4. In(l, K, p) <=> In(<<y>> \o a, K, p) \/ InSpan(x, K, p)
    BY <1>4, ListPrepend, Zenon
  <2>3. InSpan(z, K, p) <=> InSpan(x, K, p) \/ InSpan(y, K, p)
    BY <1>1, <1>2, <1>3, <1>8, <1>10 DEF InSpan
  <2> QED BY <2>1, <2>2, <2>3, <2>4
<1>11. ASSUME NEW n \in Int PROVE /\ From(l, n) => From(m, n)
                                  /\ Until(l, n) => Until(m, n)
                                  /\ From(Tail(l), n) => From(Tail(m), n)
  <2>1. /\ From(m, n) <=> From(a, n) /\ n <= z.start
        /\ Until(m, n) <=> Until(a, n) /\ z.end <= n
    BY <1>1, ListPrepend
  <2>2. /\ From(<<y>> \o a, n) <=> From(a, n) /\ n <= y.start
        /\ Until(<<y>> \o a, n) <=> Until(a, n) /\ y.end <= n
    BY ListPrepend
  <2>3. /\ From(l, n) <=> From(<<y>> \o a, n) /\ n <= x.start
        /\ Until(l, n) <=> Until(<<y>> \o a, n) /\ x.end <= n
    BY <1>4, ListPrepend, Zenon
  <2> QED BY <1>1, <1>5, <2>1, <2>2, <2>3, Zenon
<1>12. InOrder(l) => Head(l).end <= Head(m).end
  BY <1>1, <1>2, <1>3, <1>5, <1>8
<1>13. MergesNext(l, m)
  BY <1>1, <1>5, <1>6, <1>7, <1>9, <1>10, <1>11, <1>12, Zenon DEF MergesNext, Merges
<1> QED BY <1>4, <1>6, <1>13 DEF z

\* One merge after another, at the beginning of a list.
LEMMA MergesNextTransitive ==
  ASSUME NEW l \in Lists, NEW k \in Lists, NEW m \in Lists, l # <<>>,
         MergesNext(l, k), Len(k) < Len(l), MergesNext(k, m)
  PROVE  MergesNext(l, m)
<1>1. Merges(l, m) /\ k # <<>> /\ m # <<>>
  BY MergesTransitive DEF MergesNext, Merges
<1>2. Head(l).end \in Int /\ Head(k).end \in Int /\ Head(m).end \in Int
  BY <1>1, BothKinds, ListHead, SpanTypes, Zenon
<1>3. InOrder(l) => Head(l).end <= Head(m).end
  BY <1>2 DEF MergesNext, Merges
<1>4. Len(m) # Len(l)
  <2>1. Len(l) \in Nat /\ Len(k) \in Nat /\ Len(m) \in Nat
    BY LenProperties DEF Lists
  <2> QED BY <2>1 DEF MergesNext, Merges
<1> QED BY <1>1, <1>3, <1>4 DEF MergesNext

MNEnd == {l \in Lists : ~(Len(l) > 1 /\ Joins(l[1], l[2]))}

\* The recursive definition of MergeNext holds of what it defines.
LEMMA MergeNextUnfolds ==
  MergeNext = [l \in Lists |-> IF Len(l) > 1 /\ Joins(l[1], l[2])
                               THEN MergeNext[MN(l)] ELSE l]
<1> DEFINE E == MNEnd
           res == [l \in Lists |-> l]
           step == [l \in Lists |-> IF l \in E THEN l ELSE MN(l)]
           m == [l \in Lists |-> Len(l)]
<1>1. ASSUME NEW l \in Lists, l \notin E PROVE MN(l) \in Lists /\ Len(MN(l)) < Len(l)
  <2>1. Len(l) > 1 /\ Joins(l[1], l[2])
    BY <1>1 DEF MNEnd
  <2>2. PICK x \in SpanOf(HLists), y \in SpanOf(HLists), a \in ListsOf(HLists) : BeginsWith(l, x, y, a)
    BY <2>1, BothKinds, MNShape
  <2>3. Joins(x, y) /\ l = <<x>> \o (<<y>> \o a) /\ MN(l) = <<[x EXCEPT !.end = y.end]>> \o a
    BY <2>1, <2>2, Zenon DEF BeginsWith
  <2>4. MN(l) \in ListsOf(HLists) /\ Len(MN(l)) < Len(l)
    BY <2>3, MergeNextOnce, Zenon
  <2> QED BY <2>4, BothKinds
<1>2. /\ m \in [Lists -> Nat] /\ res \in [Lists -> Lists] /\ step \in [Lists -> Lists] /\ Lists # {}
  <2>1. \A l \in Lists : Len(l) \in Nat
    BY LenProperties DEF Lists
  <2>2. Lists # {}
    BY BothKinds, ListNone
  <2>3. step \in [Lists -> Lists]
    BY <1>1
  <2> QED BY <2>1, <2>2, <2>3
<1>3. \A x \in Lists : x \notin E => m[step[x]] < m[x]
  BY <1>1, <1>2
<1>4. PICK f \in [Lists -> Lists] : Loops(Lists, E, res, step, f)
  <2> HIDE DEF E, res, step, m
  <2> QED BY <1>2, <1>3, While, Zenon
<1>5. f = [l \in Lists |-> IF Len(l) > 1 /\ Joins(l[1], l[2]) THEN f[MN(l)] ELSE l]
  BY <1>4 DEF MNEnd, Loops
<1>6. \E g : g = [l \in Lists |-> IF Len(l) > 1 /\ Joins(l[1], l[2]) THEN g[MN(l)] ELSE l]
  BY <1>5
<1> QED BY <1>6, Zenon DEF MergeNext, MN

\* sraSpanMergeNext keeps what the list holds, its order and its beginning.
LEMMA MergeNextMerges ==
  ASSUME NEW l \in Lists, l # <<>>
  PROVE  MergeNext[l] \in Lists /\ MergesNext(l, MergeNext[l])
<1> DEFINE G == {k \in Lists : k # <<>> => /\ MergeNext[k] \in Lists
                                          /\ MergesNext(k, MergeNext[k])}
           m == [k \in Lists |-> Len(k)]
<1>1. ASSUME NEW k \in Lists, \A j \in Lists : Len(j) < Len(k) => j \in G, k # <<>>
      PROVE  MergeNext[k] \in Lists /\ MergesNext(k, MergeNext[k])
  <2>1. CASE ~(Len(k) > 1 /\ Joins(k[1], k[2]))
    <3>1. MergeNext[k] = k
      BY <2>1, MergeNextUnfolds
    <3>2. Len(k) <= Len(k) /\ Head(k).end <= Head(k).end
      <4>1. Len(k) \in Nat
        BY LenProperties DEF Lists
      <4>2. Head(k).end \in Int
        BY <1>1, BothKinds, ListHead, SpanTypes, Zenon
      <4> QED BY <4>1, <4>2
    <3> QED BY <1>1, <3>1, <3>2 DEF MergesNext, Merges
  <2>2. CASE Len(k) > 1 /\ Joins(k[1], k[2])
    <3>1. MergeNext[k] = MergeNext[MN(k)]
      BY <2>2, MergeNextUnfolds
    <3>2. PICK x \in SpanOf(HLists), y \in SpanOf(HLists), a \in ListsOf(HLists) : BeginsWith(k, x, y, a)
      BY <2>2, BothKinds, MNShape
    <3>3. Joins(x, y) /\ k = <<x>> \o (<<y>> \o a) /\ MN(k) = <<[x EXCEPT !.end = y.end]>> \o a
      BY <2>2, <3>2, Zenon DEF BeginsWith
    <3>4. MergesNext(k, MN(k)) /\ MN(k) \in ListsOf(HLists) /\ Len(MN(k)) < Len(k)
      BY <3>3, MergeNextOnce, Zenon
    <3>8. MN(k) \in Lists /\ MN(k) # <<>>
      BY <3>4, BothKinds DEF MergesNext, Merges
    <3>9. MergeNext[MN(k)] \in Lists /\ MergesNext(MN(k), MergeNext[MN(k)])
      BY <1>1, <3>4, <3>8
    <3> QED BY <1>1, <3>1, <3>4, <3>8, <3>9, MergesNextTransitive
  <2> QED BY <2>1, <2>2
<1>2. Lists \subseteq G
  <2>1. m \in [Lists -> Nat]
    BY LenProperties DEF Lists
  <2>2. \A k \in Lists : (\A j \in Lists : m[j] < m[k] => j \in G) => k \in G
    BY <1>1
  <2> HIDE DEF G, m
  <2> QED BY <2>1, <2>2, Induction
<1> QED BY <1>2

-----------------------------------------------------------------------------
\* The pieces of a span before and after another, and the one they share.
LEMMA Cut ==
  ASSUME NEW T, NEW x \in SpanOf(T), NEW y \in SpanOf(T), NEW v \in T
  PROVE  /\ Before(x, y) \in ListsOf(T) /\ Len(Before(x, y)) \in 0..1
         /\ After(x, y) \in ListsOf(T) /\ Len(After(x, y)) \in 0..1
         /\ Shared(x, y, v) \in SpanOf(T)
         /\ Shared(x, y, v).start = Greater(x.start, y.start)
         /\ Shared(x, y, v).end = Smaller(x.end, y.end)
         /\ Shared(x, y, v).sub = v
         /\ Before(x, y) = <<>> => y.start <= x.start
         /\ Before(x, y) # <<>> => /\ x.start < y.start
                                   /\ Before(x, y) = <<Span(x.start, y.start, x.sub)>>
                                   /\ Span(x.start, y.start, x.sub) \in SpanOf(T)
         /\ After(x, y) = <<>> => x.end <= y.end
         /\ After(x, y) # <<>> => /\ y.end < x.end
                                  /\ After(x, y) = <<Span(y.end, x.end, x.sub)>>
                                  /\ Span(y.end, x.end, x.sub) \in SpanOf(T)
<1>1. /\ x.start \in Int /\ x.end \in Int /\ x.sub \in T
      /\ y.start \in Int /\ y.end \in Int
  BY SpanTypes
<1>2. /\ Span(x.start, y.start, x.sub) \in SpanOf(T) /\ Span(y.end, x.end, x.sub) \in SpanOf(T)
  BY <1>1 DEF Span, SpanOf
<1>3. /\ Shared(x, y, v) \in SpanOf(T)
      /\ Shared(x, y, v).start = Greater(x.start, y.start)
      /\ Shared(x, y, v).end = Smaller(x.end, y.end)
      /\ Shared(x, y, v).sub = v
  BY <1>1 DEF Shared, Span, SpanOf, Greater, Smaller
<1>4. /\ Len(<<>>) = 0 /\ <<>> \in ListsOf(T) /\ 0 \in 0..1 /\ 1 \in 0..1
  BY ListNone
<1>5. /\ Before(x, y) \in ListsOf(T) /\ Len(Before(x, y)) \in 0..1
      /\ Before(x, y) = <<>> => y.start <= x.start
      /\ Before(x, y) # <<>> => /\ x.start < y.start
                                /\ Before(x, y) = <<Span(x.start, y.start, x.sub)>>
  <2>1. CASE y.start > x.start
    BY <1>1, <1>2, <1>4, <2>1, ListOne DEF Before
  <2>2. CASE ~(y.start > x.start)
    BY <1>1, <1>4, <2>2 DEF Before
  <2> QED BY <2>1, <2>2
<1>6. /\ After(x, y) \in ListsOf(T) /\ Len(After(x, y)) \in 0..1
      /\ After(x, y) = <<>> => x.end <= y.end
      /\ After(x, y) # <<>> => /\ y.end < x.end
                               /\ After(x, y) = <<Span(y.end, x.end, x.sub)>>
  <2>1. CASE y.end < x.end
    BY <1>1, <1>2, <1>4, <2>1, ListOne DEF After
  <2>2. CASE ~(y.end < x.end)
    BY <1>1, <1>4, <2>2 DEF After
  <2> QED BY <2>1, <2>2
<1> QED BY <1>2, <1>3, <1>5, <1>6

\* What the two merges return, for lists of any kind.
LEMMA PreviousMerged ==
  ASSUME NEW T \in SUBSET HLists, NEW l \in ListsOf(T), l # <<>>, NEW m, m = MergePrevious[l]
  PROVE  /\ m \in ListsOf(T) /\ m # <<>> /\ m = Front(m) \o <<Last(m)>>
         /\ Front(m) \in ListsOf(T) /\ Last(m) \in SpanOf(T)
         /\ Len(m) \in Nat /\ Len(m) <= Len(l) /\ MergesPrevious(l, m)
<1>1. l \in Lists
  BY BothKinds
<1>2. MergesPrevious(l, m)
  BY <1>1, MergePreviousMerges
<1>3. m \in ListsOf(T) /\ m # <<>> /\ Len(m) <= Len(l)
  BY <1>2 DEF MergesPrevious, Merges
<1>4. /\ m = Front(m) \o <<Last(m)>> /\ Front(m) \in ListsOf(T) /\ Last(m) \in SpanOf(T)
  BY <1>3, ListLast, Zenon
<1>5. Len(m) \in Nat
  BY <1>3, LenProperties DEF ListsOf
<1> QED BY <1>2, <1>3, <1>4, <1>5

\* And of what follows.
LEMMA NextMerged ==
  ASSUME NEW T \in SUBSET HLists, NEW l \in ListsOf(T), l # <<>>, NEW m, m = MergeNext[l]
  PROVE  /\ m \in ListsOf(T) /\ m # <<>> /\ m = <<Head(m)>> \o Tail(m)
         /\ Tail(m) \in ListsOf(T) /\ Head(m) \in SpanOf(T)
         /\ Len(m) \in Nat /\ Len(Tail(m)) \in Nat /\ Len(m) = Len(Tail(m)) + 1
         /\ Len(m) <= Len(l) /\ MergesNext(l, m)
<1>1. l \in Lists
  BY BothKinds
<1>2. MergesNext(l, m)
  BY <1>1, MergeNextMerges
<1>3. m \in ListsOf(T) /\ m # <<>> /\ Len(m) <= Len(l)
  BY <1>2 DEF MergesNext, Merges
<1>4. /\ m = <<Head(m)>> \o Tail(m) /\ Tail(m) \in ListsOf(T) /\ Head(m) \in SpanOf(T)
      /\ Len(m) = Len(Tail(m)) + 1 /\ Len(Tail(m)) \in Nat
  BY <1>3, ListHead
<1>5. Len(m) \in Nat
  BY <1>3, LenProperties DEF ListsOf
<1> QED BY <1>2, <1>3, <1>4, <1>5

-----------------------------------------------------------------------------
(* A walk comes to its end. *)

WalkOf(T) == [done : ListsOf(T), d : ListsOf(T), s : ListsOf(T)]

Overlap(w) ==
    /\ w.d # <<>> /\ w.s # <<>>
    /\ Head(w.d).start < Head(w.s).end /\ Head(w.s).start < Head(w.d).end

Size(w) == 2 * Len(w.d) + 4 * Len(w.s) + (IF Overlap(w) THEN 1 ELSE 0)

Closed(op, T) == \A a, b \in T : op[a][b] \in T

\* The fields of a walk.
LEMMA AtTypes ==
  ASSUME NEW T, NEW done \in ListsOf(T), NEW d \in ListsOf(T), NEW s \in ListsOf(T)
  PROVE  /\ At(done, d, s) \in WalkOf(T)
         /\ At(done, d, s).done = done /\ At(done, d, s).d = d /\ At(done, d, s).s = s
BY DEF At, WalkOf

\* What makes a walk shorter: a span of the source is done, one of the
\* destination, or the first spans no longer overlap.
LEMMA Smaller1 ==
  ASSUME NEW T, NEW w \in WalkOf(T), NEW v \in WalkOf(T),
         \/ Len(v.d) <= Len(w.d) + 1 /\ Len(v.s) < Len(w.s)
         \/ Len(v.d) < Len(w.d) /\ Len(v.s) = Len(w.s)
         \/ Len(v.d) = Len(w.d) /\ Len(v.s) = Len(w.s) /\ Overlap(w) /\ ~Overlap(v)
  PROVE  Size(v) \in Nat /\ Size(w) \in Nat /\ Size(v) < Size(w)
<1>1. /\ Len(v.d) \in Nat /\ Len(v.s) \in Nat /\ Len(w.d) \in Nat /\ Len(w.s) \in Nat
  BY LenProperties DEF WalkOf, ListsOf
<1> DEFINE x == IF Overlap(v) THEN 1 ELSE 0
           y == IF Overlap(w) THEN 1 ELSE 0
           i == Len(v.d)
           j == Len(w.d)
           k == Len(v.s)
           l == Len(w.s)
<1>2. x \in 0..1 /\ y \in 0..1 /\ (Overlap(w) /\ ~Overlap(v) => x < y)
  OBVIOUS
<1>3. Size(v) = 2 * i + 4 * k + x /\ Size(w) = 2 * j + 4 * l + y
  BY DEF Size
<1>4. /\ i \in Nat /\ j \in Nat /\ k \in Nat /\ l \in Nat
      /\ \/ i <= j + 1 /\ k < l
         \/ i < j /\ k = l
         \/ i = j /\ k = l /\ x < y
  BY <1>1, <1>2
<1> HIDE DEF x, y, i, j, k, l
<1> QED BY <1>2, <1>3, <1>4

\* The same of a walk given by its parts.
LEMMA AtShrinks ==
  ASSUME NEW T, NEW w \in WalkOf(T),
         NEW done \in ListsOf(T), NEW d \in ListsOf(T), NEW s \in ListsOf(T),
         \/ Len(d) <= Len(w.d) + 1 /\ Len(s) < Len(w.s)
         \/ Len(d) < Len(w.d) /\ Len(s) = Len(w.s)
         \/ Len(d) = Len(w.d) /\ Len(s) = Len(w.s) /\ Overlap(w) /\ ~Overlap(At(done, d, s))
  PROVE  At(done, d, s) \in WalkOf(T) /\ Size(At(done, d, s)) < Size(w)
<1>1. /\ At(done, d, s) \in WalkOf(T)
      /\ At(done, d, s).done = done /\ At(done, d, s).d = d /\ At(done, d, s).s = s
  BY AtTypes
<1> QED BY <1>1, Smaller1

-----------------------------------------------------------------------------
(* The loop of sraSpanListOr. *)

\* The list up to the first span of the destination ends with it.
LEMMA FirstTypes ==
  ASSUME NEW T \in SUBSET HLists, NEW done \in ListsOf(T), NEW d \in SpanOf(T), NEW s \in SpanOf(T)
  PROVE  LET f == OrFirst(done, d, s) IN
         /\ f \in ListsOf(T) /\ f # <<>> /\ f = Front(f) \o <<Last(f)>>
         /\ Front(f) \in ListsOf(T) /\ Last(f) \in SpanOf(T)
         /\ Last(f).end = d.end /\ Last(f).sub = d.sub
<1> DEFINE f == OrFirst(done, d, s)
<1>1. CASE Before(s, d) = <<>>
  <2>1. f = done \o <<d>>
    BY <1>1, ListAppend, Zenon DEF OrFirst
  <2> HIDE DEF f
  <2>2. f \in ListsOf(T) /\ f # <<>> /\ Last(f) = d /\ Front(f) = done
    BY <2>1, LastOne, ListAppend
  <2> QED BY <2>1, <2>2, Zenon DEF f
<1>2. CASE Before(s, d) # <<>>
  <2> DEFINE l == done \o Before(s, d) \o <<d>>
  <2>1. f = MergePrevious[l]
    BY <1>2 DEF OrFirst
  <2> HIDE DEF f
  <2>2. done \o Before(s, d) \in ListsOf(T)
    BY Cut, ListJoin, SpanTypes
  <2>3. l \in ListsOf(T) /\ l # <<>> /\ Last(l) = d
    BY <2>2, ListAppend, LastOne
  <2> HIDE DEF l
  <2>4. /\ f \in ListsOf(T) /\ f # <<>> /\ f = Front(f) \o <<Last(f)>>
        /\ Front(f) \in ListsOf(T) /\ Last(f) \in SpanOf(T)
        /\ Last(f).end = d.end /\ Last(f).sub = d.sub
    BY <2>1, <2>3, PreviousMerged DEF MergesPrevious
  <2> QED BY <2>4 DEF f
<1> QED BY <1>1, <1>2

\* The list up to the span that both share ends with that.
LEMMA SharedTypes ==
  ASSUME NEW T \in SUBSET HLists, NEW inner, Closed(inner, T), NEW f \in ListsOf(T), f # <<>>, NEW s \in SpanOf(T)
  PROVE  LET l == OrShared(inner, f, s) IN
         /\ l \in ListsOf(T) /\ l # <<>> /\ l = Front(l) \o <<Last(l)>>
         /\ Front(l) \in ListsOf(T) /\ Last(l) \in SpanOf(T)
         /\ Last(l).end = Smaller(Last(f).end, s.end)
         /\ Last(l).sub = inner[Last(f).sub][s.sub]
<1> DEFINE l == OrShared(inner, f, s)
           d == Last(f)
           v == inner[d.sub][s.sub]
           k == Front(f) \o Before(d, s)
           m == k \o <<Shared(d, s, v)>>
<1>1. d \in SpanOf(T) /\ Front(f) \in ListsOf(T)
  BY ListLast, Zenon
<1>2. v \in T
  BY <1>1, SpanTypes DEF Closed
<1>3. l = MergePrevious[m]
  BY DEF OrShared
<1> HIDE DEF l
<1> HIDE DEF d, v
<1>4. /\ Before(d, s) \in ListsOf(T) /\ Shared(d, s, v) \in SpanOf(T)
      /\ Shared(d, s, v).end = Smaller(d.end, s.end) /\ Shared(d, s, v).sub = v
  BY <1>1, <1>2, Cut
<1>5. k \in ListsOf(T)
  BY <1>1, <1>4, ListJoin
<1> HIDE DEF k
<1>6. m \in ListsOf(T) /\ m # <<>> /\ Last(m) = Shared(d, s, v)
  BY <1>4, <1>5, ListAppend, LastOne
<1> HIDE DEF m
<1>7. /\ l \in ListsOf(T) /\ l # <<>> /\ l = Front(l) \o <<Last(l)>>
      /\ Front(l) \in ListsOf(T) /\ Last(l) \in SpanOf(T)
      /\ Last(l).end = Shared(d, s, v).end /\ Last(l).sub = Shared(d, s, v).sub
  BY <1>3, <1>6, PreviousMerged DEF MergesPrevious
<1> QED BY <1>4, <1>7 DEF d, v, l

\* A span appended, for a list of any kind.
LEMMA Appended ==
  ASSUME NEW T, NEW a \in ListsOf(T), NEW x \in SpanOf(T)
  PROVE  /\ Append(a, x) \in ListsOf(T) /\ Append(a, x) = a \o <<x>> /\ a \o <<x>> \in ListsOf(T)
         /\ Append(a, x) # <<>> /\ Last(Append(a, x)) = x /\ Front(Append(a, x)) = a
<1>1. Append(a, x) = a \o <<x>> /\ a \o <<x>> \in ListsOf(T)
  BY ListAppend, Zenon
<1>2. a \o <<x>> # <<>> /\ Last(a \o <<x>>) = x /\ Front(a \o <<x>>) = a
  BY LastOne
<1>3. Append(a, x) \in ListsOf(T)
  BY <1>1, Zenon
<1>4. Append(a, x) # <<>> /\ Last(Append(a, x)) = x /\ Front(Append(a, x)) = a
  BY <1>1, <1>2, Zenon
<1> QED BY <1>1, <1>3, <1>4, Zenon

\* A span prepended, for a list of any kind.
LEMMA Prepended ==
  ASSUME NEW T, NEW a \in ListsOf(T), NEW x \in SpanOf(T)
  PROVE  /\ <<x>> \o a \in ListsOf(T) /\ <<x>> \o a # <<>>
         /\ Head(<<x>> \o a) = x /\ Tail(<<x>> \o a) = a
         /\ Len(a) \in Nat /\ Len(<<x>> \o a) = Len(a) + 1
BY ListPrepend, HeadOne, Zenon

\* A walk that has come to neither end.
IsAmid(T, w, done, d1, dt, s1, st) ==
    /\ done \in ListsOf(T) /\ d1 \in SpanOf(T) /\ dt \in ListsOf(T)
    /\ s1 \in SpanOf(T) /\ st \in ListsOf(T)
    /\ w = At(done, <<d1>> \o dt, <<s1>> \o st)

\* A walk in which both lists have a span left, by its parts.
LEMMA Amidst ==
  ASSUME NEW T, NEW w \in WalkOf(T), w.d # <<>>, w.s # <<>>
  PROVE  \E done, d1, dt, s1, st : IsAmid(T, w, done, d1, dt, s1, st)
<1>1. /\ w.done \in ListsOf(T) /\ w.d \in ListsOf(T) /\ w.s \in ListsOf(T) /\ w = At(w.done, w.d, w.s)
  BY DEF WalkOf, At
<1>2. /\ Head(w.d) \in SpanOf(T) /\ Tail(w.d) \in ListsOf(T) /\ w.d = <<Head(w.d)>> \o Tail(w.d)
      /\ Head(w.s) \in SpanOf(T) /\ Tail(w.s) \in ListsOf(T) /\ w.s = <<Head(w.s)>> \o Tail(w.s)
  BY <1>1, ListHead, Zenon
<1>3. IsAmid(T, w, w.done, Head(w.d), Tail(w.d), Head(w.s), Tail(w.s))
  BY <1>1, <1>2, Zenon DEF IsAmid
<1> QED BY <1>3

\* The kinds of these parts.
LEMMA AmidstTypes ==
  ASSUME NEW T, NEW w, NEW done, NEW d1, NEW dt, NEW s1, NEW st, IsAmid(T, w, done, d1, dt, s1, st)
  PROVE  /\ done \in ListsOf(T) /\ d1 \in SpanOf(T) /\ dt \in ListsOf(T)
         /\ s1 \in SpanOf(T) /\ st \in ListsOf(T)
         /\ d1.start \in Int /\ d1.end \in Int /\ d1.sub \in T
         /\ s1.start \in Int /\ s1.end \in Int /\ s1.sub \in T
BY DEF IsAmid, SpanOf

\* What the parts are of the walk.
LEMMA AmidstParts ==
  ASSUME NEW T, NEW w, NEW done, NEW d1, NEW dt, NEW s1, NEW st, IsAmid(T, w, done, d1, dt, s1, st)
  PROVE  /\ w \in WalkOf(T) /\ w.done = done /\ w.d # <<>> /\ w.s # <<>>
         /\ w.d = <<d1>> \o dt /\ Head(w.d) = d1 /\ Tail(w.d) = dt /\ Len(w.d) = Len(dt) + 1
         /\ w.s = <<s1>> \o st /\ Head(w.s) = s1 /\ Tail(w.s) = st /\ Len(w.s) = Len(st) + 1
         /\ Len(dt) \in Nat /\ Len(st) \in Nat
         /\ w.d \in ListsOf(T) /\ w.s \in ListsOf(T)
<1>0. done \in ListsOf(T) /\ d1 \in SpanOf(T) /\ dt \in ListsOf(T) /\ s1 \in SpanOf(T) /\ st \in ListsOf(T)
  BY DEF IsAmid
<1>1. w.done = done /\ w.d = <<d1>> \o dt /\ w.s = <<s1>> \o st
  BY DEF At, IsAmid
<1>2. /\ <<d1>> \o dt \in ListsOf(T) /\ <<d1>> \o dt # <<>>
      /\ Head(<<d1>> \o dt) = d1 /\ Tail(<<d1>> \o dt) = dt
      /\ Len(<<d1>> \o dt) = Len(dt) + 1 /\ Len(dt) \in Nat
  BY <1>0, Prepended, Zenon
<1>3. /\ <<s1>> \o st \in ListsOf(T) /\ <<s1>> \o st # <<>>
      /\ Head(<<s1>> \o st) = s1 /\ Tail(<<s1>> \o st) = st
      /\ Len(<<s1>> \o st) = Len(st) + 1 /\ Len(st) \in Nat
  BY <1>0, Prepended, Zenon
<1>4. w \in WalkOf(T)
  BY <1>0, <1>2, <1>3 DEF At, WalkOf, IsAmid
<1> QED BY <1>1, <1>2, <1>3, <1>4, Zenon

\* The spans of a merge with what follows.
LEMMA NextTypes ==
  ASSUME NEW T \in SUBSET HLists, NEW x \in SpanOf(T), NEW a \in ListsOf(T), NEW dt \in ListsOf(T),
         NEW r, r = MergeNext[<<x>> \o a \o dt]
  PROVE  /\ r \in ListsOf(T) /\ r = <<Head(r)>> \o Tail(r) /\ r # <<>>
         /\ Tail(r) \in ListsOf(T) /\ Head(r) \in SpanOf(T)
         /\ MergesNext(<<x>> \o (a \o dt), r)
<1> DEFINE k == <<x>> \o (a \o dt)
<1>1. /\ <<x>> \in Seq(SpanOf(T)) /\ a \in Seq(SpanOf(T)) /\ dt \in Seq(SpanOf(T))
  BY ListOne DEF ListsOf
<1>2. k = <<x>> \o a \o dt
  BY <1>1, ConcatAssociative
<1>3. a \o dt \in ListsOf(T) /\ Len(a \o dt) = Len(a) + Len(dt) /\ Len(a) \in Nat /\ Len(dt) \in Nat
  BY ListJoin
<1>4. k \in ListsOf(T) /\ k # <<>> /\ Head(k) = x /\ Len(k) = Len(a) + Len(dt) + 1
  BY <1>3, ListPrepend, HeadOne
<1> HIDE DEF k
<1>5. r = MergeNext[k]
  BY <1>2
<1>6. /\ r \in ListsOf(T) /\ Tail(r) \in ListsOf(T) /\ Head(r) \in SpanOf(T) /\ Len(r) = Len(Tail(r)) + 1
      /\ Len(r) <= Len(k) /\ (Len(r) = Len(k) => r = k) /\ Len(r) \in Nat /\ Len(Tail(r)) \in Nat
      /\ MergesNext(k, r) /\ r = <<Head(r)>> \o Tail(r) /\ r # <<>>
  BY <1>4, <1>5, NextMerged DEF MergesNext
<1> QED BY <1>3, <1>4, <1>6, Zenon DEF k

\* Such a merge makes the list shorter whenever it moves the end of its head.
LEMMA NextLengths ==
  ASSUME NEW T \in SUBSET HLists, NEW x \in SpanOf(T), NEW a \in ListsOf(T), NEW dt \in ListsOf(T),
         NEW r, r = MergeNext[<<x>> \o a \o dt]
  PROVE  /\ Len(r) = Len(Tail(r)) + 1
         /\ Len(r) \in Nat /\ Len(Tail(r)) \in Nat /\ Len(a) \in Nat /\ Len(dt) \in Nat
         /\ Len(r) <= Len(a) + Len(dt) + 1
         /\ Head(r).end # x.end => Len(r) < Len(a) + Len(dt) + 1
<1> DEFINE k == <<x>> \o (a \o dt)
<1>1. /\ <<x>> \in Seq(SpanOf(T)) /\ a \in Seq(SpanOf(T)) /\ dt \in Seq(SpanOf(T))
  BY ListOne DEF ListsOf
<1>2. k = <<x>> \o a \o dt
  BY <1>1, ConcatAssociative
<1>3. a \o dt \in ListsOf(T) /\ Len(a \o dt) = Len(a) + Len(dt) /\ Len(a) \in Nat /\ Len(dt) \in Nat
  BY ListJoin
<1>4. k \in ListsOf(T) /\ k # <<>> /\ Head(k) = x /\ Len(k) = Len(a) + Len(dt) + 1
  BY <1>3, ListPrepend, HeadOne
<1> HIDE DEF k
<1>5. r = MergeNext[k]
  BY <1>2
<1>6. /\ r \in ListsOf(T) /\ Tail(r) \in ListsOf(T) /\ Head(r) \in SpanOf(T) /\ Len(r) = Len(Tail(r)) + 1
      /\ Len(r) <= Len(k) /\ (Len(r) = Len(k) => r = k) /\ Len(r) \in Nat /\ Len(Tail(r)) \in Nat
      /\ MergesNext(k, r) /\ r = <<Head(r)>> \o Tail(r) /\ r # <<>>
  BY <1>4, <1>5, NextMerged DEF MergesNext
<1>7. Head(r).end # x.end => Len(r) < Len(a) + Len(dt) + 1
  BY <1>3, <1>4, <1>6
<1> QED BY <1>3, <1>4, <1>6, <1>7 DEF k

\* Where the first spans overlap the walk gets shorter.
LEMMA OrMeetShrinks ==
  ASSUME NEW T \in SUBSET HLists, NEW inner, Closed(inner, T),
         NEW w, NEW done, NEW d1, NEW dt, NEW s1, NEW st, IsAmid(T, w, done, d1, dt, s1, st)
  PROVE  OrMeet(inner, w) \in WalkOf(T) /\ Size(OrMeet(inner, w)) < Size(w)
<1>0. w \in WalkOf(T) /\ Len(w.d) = Len(dt) + 1 /\ Len(w.s) = Len(st) + 1 /\ Len(dt) \in Nat /\ Len(st) \in Nat
  BY AmidstParts, Zenon
<1>1. w.done = done /\ Head(w.d) = d1 /\ Tail(w.d) = dt /\ Head(w.s) = s1 /\ Tail(w.s) = st
  BY AmidstParts, Zenon
<1>t. done \in ListsOf(T) /\ d1 \in SpanOf(T) /\ dt \in ListsOf(T) /\ s1 \in SpanOf(T) /\ st \in ListsOf(T)
  BY AmidstTypes
<1>i. d1.end \in Int /\ s1.end \in Int /\ d1.sub \in T
  BY AmidstTypes
<1>2. PICK f : f = OrFirst(done, d1, s1)
  OBVIOUS
<1>3. PICK l : l = OrShared(inner, f, s1)
  OBVIOUS
<1>4. PICK a : a = After(d1, s1)
  OBVIOUS
<1>5. PICK r : r = MergeNext[<<Last(l)>> \o a \o dt]
  OBVIOUS
<1>6. PICK s2 : s2 = [s1 EXCEPT !.start = Head(r).end]
  BY Zenon
<1>7. OrMeet(inner, w) = IF s1.end > Head(r).end
                      THEN At(Append(Front(l), Head(r)), Tail(r), <<s2>> \o st)
                      ELSE At(Front(l), r, st)
  BY <1>1, <1>2, <1>3, <1>4, <1>5, <1>6, Zenon DEF OrMeet
<1>8. /\ f \in ListsOf(T) /\ f # <<>> /\ Last(f) \in SpanOf(T) /\ Last(f).end = d1.end
  <2>1. done \in ListsOf(T) /\ d1 \in SpanOf(T) /\ s1 \in SpanOf(T)
    BY <1>t
  <2> QED BY <2>1, <1>2, FirstTypes, Zenon
<1>9. /\ Front(l) \in ListsOf(T) /\ Last(l) \in SpanOf(T) /\ Last(l).end = Smaller(d1.end, s1.end)
  <2>1. Front(l) \in ListsOf(T) /\ Last(l) \in SpanOf(T) /\ Last(l).end = Smaller(Last(f).end, s1.end)
    <3>1. s1 \in SpanOf(T) /\ f \in ListsOf(T) /\ f # <<>>
      BY <1>t, <1>8
    <3>2. Closed(inner, T)
      OBVIOUS
    <3> QED BY <1>3, <3>1, <3>2, SharedTypes, Zenon
  <2> QED BY <1>8, <2>1
<1>10. /\ a \in ListsOf(T) /\ Len(a) \in 0..1 /\ (a # <<>> => s1.end < d1.end) /\ (a = <<>> => Len(a) = 0)
  <2>1. d1 \in SpanOf(T) /\ s1 \in SpanOf(T) /\ d1.sub \in T
    BY <1>t, <1>i
  <2> QED BY <2>1, <1>4, Cut, ListNone, Zenon
<1>11. /\ r \in ListsOf(T) /\ Tail(r) \in ListsOf(T) /\ Head(r) \in SpanOf(T)
  <2>1. Last(l) \in SpanOf(T) /\ a \in ListsOf(T) /\ dt \in ListsOf(T)
    BY <1>t, <1>9, <1>10
  <2> QED BY <1>5, <2>1, NextTypes, Zenon
<1>11a. /\ Len(r) = Len(Tail(r)) + 1 /\ Len(r) \in Nat /\ Len(Tail(r)) \in Nat
        /\ Len(r) <= Len(a) + Len(dt) + 1
        /\ Head(r).end # Last(l).end => Len(r) < Len(a) + Len(dt) + 1
  <2>1. Last(l) \in SpanOf(T) /\ a \in ListsOf(T) /\ dt \in ListsOf(T)
    BY <1>t, <1>9, <1>10
  <2> QED BY <1>5, <2>1, NextLengths, Zenon
<1>n. /\ Len(a) \in 0..1 /\ Len(a) \in Nat
  BY <1>10
<1> DEFINE nd == Len(w.d)
           na == Len(a)
           nr == Len(r)
           nt == Len(dt)
<1>m. /\ nd = nt + 1 /\ nt \in Nat /\ na \in 0..1 /\ nr \in Nat /\ nr <= na + nt + 1
      /\ Len(Tail(r)) = nr - 1
  BY <1>0, <1>n, <1>11a
<1> HIDE DEF nd, na, nr, nt
<1>12. CASE ~(s1.end > Head(r).end)
  <2>1. Len(r) <= Len(w.d) + 1 /\ Len(st) < Len(w.s)
    <3>1. nr <= nd + 1
      BY <1>m
    <3> QED BY <1>0, <3>1 DEF nr, nd
  <2>2. OrMeet(inner, w) = At(Front(l), r, st)
    BY <1>7, <1>12
  <2>3. w \in WalkOf(T) /\ Front(l) \in ListsOf(T) /\ r \in ListsOf(T) /\ st \in ListsOf(T)
    BY <1>0, <1>t, <1>9, <1>11
  <2> QED BY <2>1, <2>2, <2>3, AtShrinks
<1>13. CASE s1.end > Head(r).end
  <2>1. Append(Front(l), Head(r)) \in ListsOf(T)
    BY <1>9, <1>11, Appended, Zenon
  <2>2. s2 \in SpanOf(T)
    BY <1>6, <1>t, <1>11 DEF SpanOf
  <2>3. <<s2>> \o st \in ListsOf(T) /\ Len(<<s2>> \o st) = Len(w.s)
    BY <1>0, <1>t, <2>2, Prepended
  <2>4. Len(Tail(r)) < Len(w.d)
    <3>1. CASE a = <<>>
      <4>1. Len(a) = 0
        BY <1>10, <3>1
      <4>2. nr - 1 < nd
        BY <1>m, <4>1 DEF na
      <4> QED BY <1>m, <4>2 DEF nd
    <3>2. CASE a # <<>>
      <4>1. Last(l).end = s1.end
        BY <1>i, <1>9, <1>10, <3>2 DEF Smaller
      <4>2. Head(r).end # Last(l).end
        <5>1. Head(r).end \in Int
          BY <1>11, SpanTypes
        <5> QED BY <1>i, <1>13, <4>1, <5>1
      <4>3. nr < na + nt + 1
        BY <1>11a, <4>2 DEF nr, na, nt
      <4>4. nr - 1 < nd
        BY <1>m, <4>3
      <4> QED BY <1>m, <4>4 DEF nd
    <3> QED BY <3>1, <3>2
  <2>5. OrMeet(inner, w) = At(Append(Front(l), Head(r)), Tail(r), <<s2>> \o st)
    BY <1>7, <1>13
  <2>6. w \in WalkOf(T) /\ Tail(r) \in ListsOf(T)
    BY <1>0, <1>11
  <2> QED BY <2>1, <2>3, <2>4, <2>5, <2>6, AtShrinks, Zenon
<1> QED BY <1>12, <1>13

\* Every turn of sraSpanListOr makes the walk shorter.
LEMMA OrStepShrinks ==
  ASSUME NEW T \in SUBSET HLists, NEW inner, Closed(inner, T), NEW w \in WalkOf(T), w.s # <<>>
  PROVE  OrStep(inner, w) \in WalkOf(T) /\ Size(OrStep(inner, w)) < Size(w)
<1>1. CASE w.d = <<>>
  <2>1. w.done \in ListsOf(T) /\ w.s \in ListsOf(T)
    BY DEF WalkOf
  <2>2. Head(w.s) \in SpanOf(T) /\ Tail(w.s) \in ListsOf(T) /\ Len(w.s) = Len(Tail(w.s)) + 1 /\ Len(Tail(w.s)) \in Nat
    BY <2>1, ListHead, Zenon
  <2>3. OrStep(inner, w) = At(Append(w.done, Head(w.s)), <<>>, Tail(w.s))
    BY <1>1 DEF OrStep
  <2>4. Append(w.done, Head(w.s)) \in ListsOf(T) /\ <<>> \in ListsOf(T) /\ Len(<<>>) = 0
    BY <2>1, <2>2, Appended, ListNone, Zenon
  <2>5. Len(<<>>) <= Len(w.d) + 1 /\ Len(Tail(w.s)) < Len(w.s)
    BY <1>1, <2>2, <2>4
  <2> QED BY <2>2, <2>3, <2>4, <2>5, AtShrinks, Zenon
<1>2. CASE w.d # <<>>
  <2>1. PICK done, d1, dt, s1, st : IsAmid(T, w, done, d1, dt, s1, st)
    BY <1>2, Amidst
  <2>2. /\ w.done = done /\ Head(w.d) = d1 /\ Tail(w.d) = dt /\ Head(w.s) = s1 /\ Tail(w.s) = st
        /\ w.s \in ListsOf(T) /\ Len(w.d) = Len(dt) + 1 /\ Len(w.s) = Len(st) + 1
        /\ Len(dt) \in Nat /\ Len(st) \in Nat
    BY <2>1, AmidstParts, Zenon
  <2>t. done \in ListsOf(T) /\ d1 \in SpanOf(T) /\ dt \in ListsOf(T) /\ s1 \in SpanOf(T) /\ st \in ListsOf(T)
    BY <2>1, AmidstTypes
  <2>3. CASE d1.start >= s1.end
    <3>1. PICK p : p = MergePrevious[Append(Append(done, s1), d1)]
      OBVIOUS
    <3>2. OrStep(inner, w) = At(Front(p), <<Last(p)>> \o dt, st)
      BY <1>2, <2>2, <2>3, <3>1, Zenon DEF OrStep
    <3>3. Append(done, s1) \in ListsOf(T)
      BY <2>t, Appended, Zenon
    <3>4. Append(Append(done, s1), d1) \in ListsOf(T) /\ Append(Append(done, s1), d1) # <<>>
      <4>1. d1 \in SpanOf(T)
        BY <2>t
      <4> QED BY <3>3, <4>1, Appended, Zenon
    <3>5. Front(p) \in ListsOf(T) /\ Last(p) \in SpanOf(T)
      BY <3>1, <3>4, PreviousMerged, Zenon
    <3>6. <<Last(p)>> \o dt \in ListsOf(T) /\ Len(<<Last(p)>> \o dt) = Len(w.d)
      BY <2>2, <2>t, <3>5, Prepended
    <3>7. Len(<<Last(p)>> \o dt) <= Len(w.d) + 1 /\ Len(st) < Len(w.s)
      BY <2>2, <3>6
    <3>8. st \in ListsOf(T)
      BY <2>t
    <3> QED BY <3>2, <3>5, <3>6, <3>7, <3>8, AtShrinks, Zenon
  <2>4. CASE ~(d1.start >= s1.end) /\ s1.start >= d1.end
    <3>1. OrStep(inner, w) = At(Append(done, d1), dt, w.s)
      BY <1>2, <2>2, <2>4, Zenon DEF OrStep
    <3>2. Append(done, d1) \in ListsOf(T)
      BY <2>t, Appended, Zenon
    <3>3. Len(dt) < Len(w.d) /\ Len(w.s) = Len(w.s)
      BY <2>2
    <3>4. dt \in ListsOf(T) /\ w.s \in ListsOf(T)
      BY <2>t, <2>2
    <3> QED BY <3>1, <3>2, <3>3, <3>4, AtShrinks
  <2>5. CASE ~(d1.start >= s1.end) /\ ~(s1.start >= d1.end)
    <3>1. OrStep(inner, w) = OrMeet(inner, w)
      BY <1>2, <2>2, <2>5, Zenon DEF OrStep
    <3> QED BY <2>1, <3>1, OrMeetShrinks
  <2> QED BY <2>3, <2>4, <2>5
<1> QED BY <1>1, <1>2

\* A bound of a list may be moved outwards.
LEMMA Later ==
  ASSUME NEW T, NEW l \in ListsOf(T), NEW n \in Int, NEW m \in Int, n <= m
  PROVE  (Until(l, n) => Until(l, m)) /\ (From(l, m) => From(l, n))
<1>1. ASSUME NEW x \in ToSet(l) PROVE x.start \in Int /\ x.end \in Int
  <2>1. PICK i \in DOMAIN l : x = l[i]
    BY DEF ToSet
  <2>2. l \in Seq(SpanOf(T)) /\ DOMAIN l = 1..Len(l)
    BY LenProperties DEF ListsOf
  <2> QED BY <2>1, <2>2, ElementOfSeq, SpanTypes
<1>2. ASSUME Until(l, n) PROVE Until(l, m)
  BY <1>1, <1>2 DEF Until
<1>3. ASSUME From(l, m) PROVE From(l, n)
  BY <1>1, <1>3 DEF From
<1> QED BY <1>2, <1>3

\* A list holds nothing beyond its bounds.
LEMMA Outside ==
  ASSUME NEW T, NEW l \in ListsOf(T), NEW K, NEW n \in Int, NEW p \in Int
  PROVE  /\ Until(l, n) /\ n <= p => ~In(l, K, p)
         /\ From(l, n) /\ p < n => ~In(l, K, p)
<1>1. ASSUME NEW x \in ToSet(l) PROVE x.start \in Int /\ x.end \in Int
  <2>1. PICK i \in DOMAIN l : x = l[i]
    BY DEF ToSet
  <2>2. l \in Seq(SpanOf(T)) /\ DOMAIN l = 1..Len(l)
    BY LenProperties DEF ListsOf
  <2> QED BY <2>1, <2>2, ElementOfSeq, SpanTypes
<1>2. ASSUME Until(l, n), n <= p, In(l, K, p) PROVE FALSE
  BY <1>1, <1>2 DEF Until, In, InSpan
<1>3. ASSUME From(l, n), p < n, In(l, K, p) PROVE FALSE
  BY <1>1, <1>3 DEF From, In, InSpan
<1> QED BY <1>2, <1>3

-----------------------------------------------------------------------------
Overlapping(T, d, s) ==
    /\ d \in SpanOf(T) /\ s \in SpanOf(T)
    /\ d.start < d.end /\ s.start < s.end /\ d.start < s.end /\ s.start < d.end

\* Two spans that overlap, and their fields.
LEMMA OverlapTypes ==
  ASSUME NEW T, NEW d, NEW s, Overlapping(T, d, s)
  PROVE  /\ d \in SpanOf(T) /\ s \in SpanOf(T)
         /\ d.start \in Int /\ d.end \in Int /\ d.sub \in T
         /\ s.start \in Int /\ s.end \in Int /\ s.sub \in T
         /\ d.start < d.end /\ s.start < s.end /\ d.start < s.end /\ s.start < d.end
BY DEF Overlapping, SpanOf

\* What follows the shared span in the destination.
LEMMA RestTypes ==
  ASSUME NEW T, NEW d \in SpanOf(T), NEW s \in SpanOf(T), NEW dt \in ListsOf(T)
  PROVE  LET rest == After(d, s) \o dt IN
         /\ rest \in ListsOf(T) /\ Len(rest) \in Nat /\ Len(dt) \in Nat
         /\ Len(rest) <= Len(dt) + 1
         /\ (d.end <= s.end => rest = dt)
         /\ (s.end < d.end => rest = <<Span(s.end, d.end, d.sub)>> \o dt)
         /\ Span(s.end, d.end, d.sub) \in SpanOf(T)
<1>1. d.end \in Int /\ s.end \in Int /\ d.sub \in T
  BY SpanTypes
<1>2. Span(s.end, d.end, d.sub) \in SpanOf(T)
  BY <1>1 DEF Span, SpanOf
<1>3. ASSUME d.end <= s.end PROVE After(d, s) \o dt = dt
  <2>1. After(d, s) = <<>>
    BY <1>1, <1>3 DEF After
  <2> QED BY <2>1, ConcatEmptySeq DEF ListsOf
<1>4. ASSUME s.end < d.end PROVE After(d, s) \o dt = <<Span(s.end, d.end, d.sub)>> \o dt
  BY <1>1, <1>4 DEF After
<1>5. Len(dt) \in Nat
  BY LenProperties DEF ListsOf
<1> DEFINE rest == After(d, s) \o dt
<1>6. rest \in ListsOf(T) /\ Len(rest) \in Nat /\ Len(rest) <= Len(dt) + 1
  <2>1. CASE d.end <= s.end
    <3>1. rest = dt
      BY <1>3, <2>1
    <3> HIDE DEF rest
    <3> QED BY <1>5, <3>1
  <2>2. CASE s.end < d.end
    <3>1. rest = <<Span(s.end, d.end, d.sub)>> \o dt
      BY <1>4, <2>2
    <3>2. /\ <<Span(s.end, d.end, d.sub)>> \o dt \in ListsOf(T)
          /\ Len(<<Span(s.end, d.end, d.sub)>> \o dt) = Len(dt) + 1
      BY <1>2, Prepended
    <3> HIDE DEF rest
    <3>3. rest \in ListsOf(T) /\ Len(rest) = Len(dt) + 1
      BY <3>1, <3>2
    <3> QED BY <1>5, <3>3
  <2> QED BY <1>1, <2>1, <2>2
<1> QED BY <1>2, <1>3, <1>4, <1>5, <1>6, Zenon

\* It holds what the destination held from there on.
LEMMA RestMeans ==
  ASSUME NEW T, NEW d, NEW s, Overlapping(T, d, s), NEW dt, dt \in ListsOf(T),
         InOrder(dt), From(dt, d.end)
  PROVE  LET rest == After(d, s) \o dt
             e == Smaller(d.end, s.end)
         IN /\ InOrder(rest) /\ From(rest, e)
            /\ \A K : \A p \in Int : In(rest, K, p) <=> e <= p /\ (InSpan(d, K, p) \/ In(dt, K, p))
<1> DEFINE e == Smaller(d.end, s.end)
           rest == After(d, s) \o dt
<1>1. /\ d \in SpanOf(T) /\ s \in SpanOf(T)
      /\ d.start \in Int /\ d.end \in Int /\ d.sub \in T
      /\ s.start \in Int /\ s.end \in Int /\ s.sub \in T
      /\ d.start < d.end /\ s.start < s.end /\ d.start < s.end /\ s.start < d.end
  BY OverlapTypes
<1>2. CASE d.end <= s.end
  <2>1. rest = dt /\ e = d.end
    <3>0. After(d, s) = <<>>
      BY <1>1, <1>2 DEF After
    <3>1. rest = dt
      BY <3>0, ConcatEmptySeq DEF ListsOf
    <3>2. e = d.end
      BY <1>1, <1>2 DEF Smaller
    <3> QED BY <3>1, <3>2
  <2>2. ASSUME NEW K, NEW p \in Int
        PROVE  In(dt, K, p) <=> d.end <= p /\ (InSpan(d, K, p) \/ In(dt, K, p))
    <3>1. InSpan(d, K, p) => p < d.end
      BY DEF InSpan
    <3>2. p < d.end => ~In(dt, K, p)
      BY <1>1, Outside
    <3> QED BY <1>1, <3>1, <3>2
  <2> HIDE DEF rest, e
  <2> QED BY <2>1, <2>2 DEF rest, e
<1>3. CASE s.end < d.end
  <2> DEFINE a == Span(s.end, d.end, d.sub)
  <2>1. rest = <<a>> \o dt /\ e = s.end /\ a \in SpanOf(T)
    <3>1. d \in SpanOf(T) /\ s \in SpanOf(T)
      BY <1>1
    <3>2. rest = <<a>> \o dt /\ a \in SpanOf(T)
      BY <1>3, <3>1, RestTypes
    <3>3. e = s.end
      BY <1>1, <1>3 DEF Smaller
    <3> QED BY <3>2, <3>3
  <2>2. a.start = s.end /\ a.end = d.end /\ a.sub = d.sub
    BY DEF Span
  <2> HIDE DEF a
  <2>3. InOrder(<<a>> \o dt)
    BY <1>3, <2>1, <2>2, OrderFirst
  <2>4. From(<<a>> \o dt, s.end)
    <3>1. From(dt, s.end)
      BY <1>1, <1>3, Later
    <3>2. s.end <= a.start
      BY <1>1, <2>2
    <3> QED BY <2>1, <3>1, <3>2, ListPrepend, Zenon
  <2>5. ASSUME NEW K, NEW p \in Int
        PROVE  In(<<a>> \o dt, K, p) <=> s.end <= p /\ (InSpan(d, K, p) \/ In(dt, K, p))
    <3>1. In(<<a>> \o dt, K, p) <=> In(dt, K, p) \/ InSpan(a, K, p)
      BY <2>1, ListPrepend, Zenon
    <3>2. InSpan(a, K, p) <=> InSpan(d, K, p) /\ s.end <= p
      BY <1>1, <2>2 DEF InSpan
    <3>3. p < d.end => ~In(dt, K, p)
      BY <1>1, Outside
    <3>4. In(dt, K, p) => s.end <= p
      BY <1>1, <1>3, <3>3
    <3> QED BY <3>1, <3>2, <3>4
  <2> HIDE DEF rest, e
  <2> QED BY <2>1, <2>3, <2>4, <2>5 DEF rest, e
<1> QED BY <1>1, <1>2, <1>3

-----------------------------------------------------------------------------
\* The list up to the first span holds, besides, the source before it.
LEMMA FirstMeans ==
  ASSUME NEW T \in SUBSET HLists, NEW d, NEW s, Overlapping(T, d, s),
         NEW done, done \in ListsOf(T), InOrder(done),
         NEW n \in Int, Until(done, n), n <= d.start, n <= s.start
  PROVE  LET f == OrFirst(done, d, s) IN
         /\ InOrder(f) /\ Last(f).start <= d.start
         /\ \A K : \A p \in Int : 
               (In(f, K, p) <=> (In(done, K, p) \/ InSpan(d, K, p)
                                   \/ (s.sub \in K /\ s.start <= p /\ p < d.start)))
<1> DEFINE f == OrFirst(done, d, s)
<1>1. /\ d \in SpanOf(T) /\ s \in SpanOf(T)
      /\ d.start \in Int /\ d.end \in Int /\ d.sub \in T
      /\ s.start \in Int /\ s.end \in Int /\ s.sub \in T
      /\ d.start < d.end /\ s.start < s.end /\ d.start < s.end /\ s.start < d.end
  BY OverlapTypes
<1>2. CASE d.start <= s.start
  <2>1. f = done \o <<d>>
    <3>1. Before(s, d) = <<>>
      BY <1>1, <1>2 DEF Before
    <3>2. d \in SpanOf(T)
      BY <1>1
    <3> QED BY <3>1, <3>2, Appended DEF OrFirst
  <2> HIDE DEF f
  <2>2. Until(done, d.start)
    BY <1>1, Later
  <2>3. InOrder(f)
    BY <1>1, <2>1, <2>2, OrderLast
  <2>4. Last(f) = d
    BY <1>1, <2>1, LastOne
  <2>5. ASSUME NEW K, NEW p \in Int PROVE In(f, K, p) <=> In(done, K, p) \/ InSpan(d, K, p)
    BY <1>1, <2>1, ListAppend, Zenon
  <2>6. ASSUME NEW p \in Int PROVE ~(s.start <= p /\ p < d.start)
    BY <1>1, <1>2
  <2>7. d.start <= d.start
    BY <1>1
  <2> QED BY <2>3, <2>4, <2>5, <2>6, <2>7 DEF f
<1>3. CASE s.start < d.start
  <2> DEFINE b == Span(s.start, d.start, s.sub)
             k == done \o <<b>>
             l == k \o <<d>>
  <2>1. f = MergePrevious[l]
    <3>1. Before(s, d) = <<b>>
      BY <1>1, <1>3 DEF Before
    <3> HIDE DEF b
    <3> QED BY <3>1 DEF OrFirst
  <2>2. b \in SpanOf(T) /\ b.start = s.start /\ b.end = d.start /\ b.sub = s.sub
    BY <1>1 DEF Span, SpanOf
  <2> HIDE DEF b, f
  <2>3. k \in ListsOf(T) /\ InOrder(k) /\ Until(k, d.start)
    <3>1. k \in ListsOf(T)
      BY <2>2, Appended
    <3>2. Until(done, b.start)
      BY <1>1, <2>2, Later
    <3>3. InOrder(k)
      BY <1>3, <2>2, <3>2, OrderLast
    <3>4. Until(done, d.start)
      BY <1>1, Later
    <3>5. b.end <= d.start
      BY <1>1, <2>2
    <3>6. Until(k, d.start)
      BY <2>2, <3>4, <3>5, ListAppend
    <3> QED BY <3>1, <3>3, <3>6
  <2>4. ASSUME NEW K, NEW p \in Int PROVE In(k, K, p) <=> In(done, K, p) \/ InSpan(b, K, p)
    BY <2>2, ListAppend
  <2> HIDE DEF k
  <2>5. l \in ListsOf(T) /\ InOrder(l) /\ l # <<>> /\ Last(l) = d
    <3>1. d \in SpanOf(T) /\ d.start < d.end
      BY <1>1
    <3> QED BY <2>3, <3>1, Appended, OrderLast, Zenon
  <2>6. ASSUME NEW K, NEW p \in Int PROVE In(l, K, p) <=> In(k, K, p) \/ InSpan(d, K, p)
    <3>1. d \in SpanOf(T)
      BY <1>1
    <3> QED BY <2>3, <3>1, ListAppend, Zenon
  <2> HIDE DEF l
  <2>7. MergesPrevious(l, f)
    BY <2>1, <2>5, PreviousMerged, Zenon
  <2>8. InOrder(f) /\ Last(f).start <= d.start
    BY <2>5, <2>7 DEF MergesPrevious, Merges
  <2>9. ASSUME NEW K, NEW p \in Int PROVE In(f, K, p) <=> In(l, K, p)
    BY <2>5, <2>7 DEF MergesPrevious, Merges
  <2>10. ASSUME NEW K, NEW p \in Int PROVE InSpan(b, K, p) <=> s.sub \in K /\ s.start <= p /\ p < d.start
    BY <2>2 DEF InSpan
  <2> QED BY <2>4, <2>6, <2>8, <2>9, <2>10 DEF f
<1> QED BY <1>1, <1>2, <1>3

\* The destination before the shared span.
LEMMA BeforeMeans ==
  ASSUME NEW T, NEW d, NEW s, Overlapping(T, d, s), NEW g, g \in ListsOf(T), InOrder(g), Until(g, d.start)
  PROVE  LET k == g \o Before(d, s)
             m == Greater(d.start, s.start)
         IN /\ k \in ListsOf(T) /\ InOrder(k) /\ Until(k, m)
            /\ \A K : \A p \in Int : In(k, K, p) <=> (In(g, K, p) \/ (InSpan(d, K, p) /\ p < m))
<1> DEFINE k == g \o Before(d, s)
           m == Greater(d.start, s.start)
<1>o1. /\ d \in SpanOf(T) /\ s \in SpanOf(T)
       /\ d.start \in Int /\ d.end \in Int /\ d.sub \in T
       /\ s.start \in Int /\ s.end \in Int /\ s.sub \in T
       /\ d.start < d.end /\ s.start < s.end /\ d.start < s.end /\ s.start < d.end
  BY OverlapTypes
<1>o9. /\ m \in Int /\ d.start <= m /\ s.start <= m
       /\ (s.start <= d.start => m = d.start) /\ (d.start < s.start => m = s.start)
  BY <1>o1 DEF Greater
<1> HIDE DEF m
<1>1. ASSUME s.start <= d.start
      PROVE  /\ k \in ListsOf(T) /\ InOrder(k) /\ Until(k, m)
             /\ \A K : \A p \in Int : In(k, K, p) <=> (In(g, K, p) \/ (InSpan(d, K, p) /\ p < m))
  <2>1. Before(d, s) = <<>>
    BY <1>o1, <1>1 DEF Before
  <2>2. k = g
    BY <2>1, ConcatEmptySeq DEF ListsOf
  <2>3. m = d.start
    BY <1>o9, <1>1
  <2>4. ASSUME NEW K, NEW p \in Int PROVE ~(InSpan(d, K, p) /\ p < m)
    BY <1>o1, <2>3 DEF InSpan
  <2> HIDE DEF k
  <2> QED BY <2>2, <2>3, <2>4
<1>2. ASSUME d.start < s.start
      PROVE  /\ k \in ListsOf(T) /\ InOrder(k) /\ Until(k, m)
             /\ \A K : \A p \in Int : In(k, K, p) <=> (In(g, K, p) \/ (InSpan(d, K, p) /\ p < m))
  <2> DEFINE b == Span(d.start, s.start, d.sub)
  <2>1. Before(d, s) = <<b>>
    BY <1>o1, <1>2 DEF Before
  <2>2. b \in SpanOf(T) /\ b.start = d.start /\ b.end = s.start /\ b.sub = d.sub
    BY <1>o1 DEF Span, SpanOf
  <2> HIDE DEF b
  <2>3. k = g \o <<b>>
    BY <2>1
  <2>4. m = s.start
    BY <1>o9, <1>2
  <2> HIDE DEF k
  <2>5. k \in ListsOf(T)
    BY <2>2, <2>3, Appended
  <2>6. InOrder(k)
    BY <1>2, <2>2, <2>3, OrderLast
  <2>7. Until(k, m)
    <3>1. Until(g, m)
      BY <1>o1, <1>o9, Later
    <3>2. b.end <= m
      BY <1>o1, <2>2, <2>4
    <3> QED BY <2>2, <2>3, <3>1, <3>2, ListAppend, Zenon
  <2>8. ASSUME NEW K, NEW p \in Int PROVE In(k, K, p) <=> In(g, K, p) \/ (InSpan(d, K, p) /\ p < m)
    <3>1. In(k, K, p) <=> In(g, K, p) \/ InSpan(b, K, p)
      BY <2>2, <2>3, ListAppend, Zenon
    <3>2. InSpan(b, K, p) <=> InSpan(d, K, p) /\ p < m
      BY <1>o1, <2>2, <2>4 DEF InSpan
    <3> QED BY <3>1, <3>2
  <2> QED BY <2>5, <2>6, <2>7, <2>8
<1> HIDE DEF k
<1>3. /\ k \in ListsOf(T) /\ InOrder(k) /\ Until(k, m)
      /\ \A K : \A p \in Int : In(k, K, p) <=> (In(g, K, p) \/ (InSpan(d, K, p) /\ p < m))
  BY <1>o1, <1>1, <1>2
<1> QED BY <1>3 DEF k, m

\* What inner must do for Or.
OrInner(inner, T, K) ==
    \A a, b \in T : inner[a][b] \in T /\ (inner[a][b] \in K <=> a \in K \/ b \in K)

\* Up to the end of the shared span the list holds what either held.
LEMMA SharedMeans ==
  ASSUME NEW T \in SUBSET HLists, NEW inner, Closed(inner, T),
         NEW f, f \in ListsOf(T), f # <<>>, InOrder(f), NEW s, Overlapping(T, Last(f), s)
  PROVE  LET l == OrShared(inner, f, s)
             m == Greater(Last(f).start, s.start)
             e == Smaller(Last(f).end, s.end)
         IN /\ InOrder(l) /\ Last(l).start <= m
            /\ \A K : \A p \in Int : OrInner(inner, T, K) =>
                   (In(l, K, p) <=> p < e /\ (In(f, K, p) \/ (s.sub \in K /\ m <= p)))
<1> DEFINE d == Last(f)
           g == Front(f)
           l == OrShared(inner, f, s)
           v == inner[d.sub][s.sub]
           m == Greater(d.start, s.start)
           e == Smaller(d.end, s.end)
           x == Shared(d, s, v)
           k == g \o Before(d, s)
           c == k \o <<x>>
<1>1. /\ d \in SpanOf(T) /\ s \in SpanOf(T)
      /\ d.start \in Int /\ d.end \in Int /\ d.sub \in T
      /\ s.start \in Int /\ s.end \in Int /\ s.sub \in T
      /\ d.start < d.end /\ s.start < s.end /\ d.start < s.end /\ s.start < d.end
  BY OverlapTypes
<1>2. v \in T
  BY <1>1 DEF Closed
<1>3. l = MergePrevious[c]
  BY DEF OrShared
<1>4. f = g \o <<d>> /\ g \in ListsOf(T)
  BY ListLast, Zenon
<1> HIDE DEF l, g, d
<1>5. InOrder(g) /\ Until(g, d.start)
  BY <1>1, <1>4, OrderLast
<1>6. ASSUME NEW K, NEW p \in Int PROVE In(f, K, p) <=> In(g, K, p) \/ InSpan(d, K, p)
  BY <1>1, <1>4, ListAppend, Zenon
<1>7. ASSUME NEW K, OrInner(inner, T, K) PROVE v \in K <=> d.sub \in K \/ s.sub \in K
  BY <1>1, <1>7 DEF OrInner
<1> HIDE DEF v
<1>8. x \in SpanOf(T) /\ x.start = m /\ x.end = e /\ x.sub = v
  BY <1>1, <1>2, Cut
<1>9. /\ m \in Int /\ e \in Int /\ m < e /\ d.start <= m /\ s.start <= m /\ e <= d.end
      /\ (m = d.start \/ m = s.start) /\ (e = d.end \/ e = s.end) /\ e <= s.end
      /\ (s.start <= d.start => m = d.start) /\ (d.start < s.start => m = s.start)
  BY <1>1 DEF Smaller, Greater
<1> HIDE DEF m, e, x
<1>10. /\ k \in ListsOf(T) /\ InOrder(k) /\ Until(k, m)
       /\ \A K : \A p \in Int : In(k, K, p) <=> (In(g, K, p) \/ (InSpan(d, K, p) /\ p < m))
  <2> HIDE DEF k
  <2>1. Overlapping(T, d, s)
    BY DEF d
  <2> QED BY <1>4, <1>5, <2>1, BeforeMeans DEF k, m
<1> HIDE DEF k
<1>11. c \in ListsOf(T) /\ c # <<>> /\ Last(c) = x
  BY <1>8, <1>10, Appended, Zenon
<1>12. InOrder(c)
  BY <1>8, <1>9, <1>10, OrderLast
<1>13. ASSUME NEW K, NEW p \in Int PROVE In(c, K, p) <=> In(k, K, p) \/ InSpan(x, K, p)
  BY <1>8, <1>10, ListAppend, Zenon
<1> HIDE DEF c
<1>14. MergesPrevious(c, l)
  BY <1>3, <1>11, PreviousMerged, Zenon
<1>15. InOrder(l) /\ Last(l).start <= m
  BY <1>8, <1>11, <1>12, <1>14 DEF MergesPrevious, Merges
<1>16. ASSUME NEW K, NEW p \in Int PROVE In(l, K, p) <=> In(c, K, p)
  BY <1>12, <1>14 DEF MergesPrevious, Merges
<1>17. ASSUME NEW K, NEW p \in Int, OrInner(inner, T, K)
       PROVE  In(l, K, p) <=> p < e /\ (In(f, K, p) \/ (s.sub \in K /\ m <= p))
  <2>1. In(l, K, p) <=> In(g, K, p) \/ (InSpan(d, K, p) /\ p < m) \/ InSpan(x, K, p)
    BY <1>10, <1>13, <1>16
  <2>2. In(f, K, p) <=> In(g, K, p) \/ InSpan(d, K, p)
    BY <1>6
  <2>3. In(g, K, p) => p < d.start
    BY <1>1, <1>4, <1>5, Outside
  <2>4. InSpan(x, K, p) <=> m <= p /\ p < e /\ (d.sub \in K \/ s.sub \in K)
    BY <1>7, <1>8, <1>17 DEF InSpan
  <2>5. InSpan(d, K, p) <=> d.start <= p /\ p < d.end /\ d.sub \in K
    BY DEF InSpan
  <2> QED BY <1>1, <1>9, <2>1, <2>2, <2>3, <2>4, <2>5
<1> QED BY <1>15, <1>17 DEF l, m, e, d

\* A merge with what follows holds what the spans held.
LEMMA NextMeans ==
  ASSUME NEW T \in SUBSET HLists, NEW x, x \in SpanOf(T), x.start < x.end,
         NEW rest, rest \in ListsOf(T), InOrder(rest), From(rest, x.end)
  PROVE  LET r == MergeNext[<<x>> \o rest] IN
         /\ r \in ListsOf(T) /\ Head(r) \in SpanOf(T) /\ Tail(r) \in ListsOf(T)
         /\ InOrder(r) /\ InOrder(Tail(r)) /\ From(Tail(r), Head(r).end) /\ From(r, x.start)
         /\ Head(r).start = x.start /\ Head(r).sub = x.sub
         /\ Head(r).start < Head(r).end /\ x.end <= Head(r).end
         /\ \A K : \A p \in Int : In(r, K, p) <=> (InSpan(x, K, p) \/ In(rest, K, p))
         /\ \A K : \A p \in Int : In(r, K, p) <=> (InSpan(Head(r), K, p) \/ In(Tail(r), K, p))
<1> DEFINE k == <<x>> \o rest
           r == MergeNext[k]
<1>1. x.start \in Int /\ x.end \in Int
  BY SpanTypes
<1>2. k \in ListsOf(T) /\ k # <<>> /\ Head(k) = x /\ Tail(k) = rest
  BY Prepended, Zenon
<1>3. InOrder(k)
  BY OrderFirst
<1>4. From(k, x.start)
  <2>1. From(rest, x.start)
    BY <1>1, Later
  <2>2. x.start <= x.start
    BY <1>1
  <2> QED BY <2>1, <2>2, ListPrepend
<1>5. ASSUME NEW K, NEW p \in Int PROVE In(k, K, p) <=> (InSpan(x, K, p) \/ In(rest, K, p))
  BY ListPrepend
<1> HIDE DEF k
<1>6. /\ r \in ListsOf(T) /\ r # <<>> /\ Head(r) \in SpanOf(T) /\ Tail(r) \in ListsOf(T)
      /\ r = <<Head(r)>> \o Tail(r) /\ MergesNext(k, r)
  BY <1>2, NextMerged
<1> HIDE DEF r
<1>7. InOrder(r) /\ Head(r).start = x.start /\ Head(r).sub = x.sub /\ x.end <= Head(r).end
  BY <1>2, <1>3, <1>6 DEF MergesNext, Merges
<1>8. From(r, x.start)
  BY <1>1, <1>3, <1>4, <1>6 DEF MergesNext, Merges
<1>9. InOrder(Tail(r)) /\ From(Tail(r), Head(r).end) /\ Head(r).start < Head(r).end
  <2> DEFINE h == Head(r)
             t == Tail(r)
  <2>1. h \in SpanOf(T) /\ t \in ListsOf(T) /\ InOrder(<<h>> \o t)
    BY <1>6, <1>7, Zenon
  <2> HIDE DEF h, t
  <2>2. InOrder(t) /\ From(t, h.end) /\ h.start < h.end
    BY <2>1, OrderFirst
  <2> QED BY <2>2 DEF h, t
<1>10. ASSUME NEW K, NEW p \in Int PROVE In(r, K, p) <=> (InSpan(x, K, p) \/ In(rest, K, p))
  <2>1. In(r, K, p) <=> In(k, K, p)
    BY <1>3, <1>6 DEF MergesNext, Merges
  <2> QED BY <1>5, <2>1
<1>11. ASSUME NEW K, NEW p \in Int PROVE In(r, K, p) <=> (InSpan(Head(r), K, p) \/ In(Tail(r), K, p))
  <2> DEFINE h == Head(r)
             t == Tail(r)
  <2>1. h \in SpanOf(T) /\ t \in ListsOf(T) /\ r = <<h>> \o t
    BY <1>6
  <2> HIDE DEF h, t
  <2>2. In(r, K, p) <=> (InSpan(h, K, p) \/ In(t, K, p))
    BY <2>1, ListPrepend, Zenon
  <2> QED BY <2>2 DEF h, t
<1> QED BY <1>6, <1>7, <1>8, <1>9, <1>10, <1>11 DEF r, k

\* A list in order, and its last span.
LEMMA LastMeans ==
  ASSUME NEW T, NEW l, l \in ListsOf(T), l # <<>>, InOrder(l)
  PROVE  /\ InOrder(Front(l)) /\ Until(Front(l), Last(l).start) /\ Last(l).start < Last(l).end
         /\ \A K : \A p \in Int : In(l, K, p) <=> (In(Front(l), K, p) \/ InSpan(Last(l), K, p))
<1> DEFINE h == Last(l)
           t == Front(l)
<1>1. h \in SpanOf(T) /\ t \in ListsOf(T) /\ l = t \o <<h>>
  BY ListLast, Zenon
<1> HIDE DEF h, t
<1>2. InOrder(t) /\ Until(t, h.start) /\ h.start < h.end
  BY <1>1, OrderLast
<1>3. ASSUME NEW K, NEW p \in Int PROVE In(l, K, p) <=> (In(t, K, p) \/ InSpan(h, K, p))
  BY <1>1, ListAppend, Zenon
<1> QED BY <1>2, <1>3 DEF h, t

-----------------------------------------------------------------------------
OrFits(w) ==
    /\ InOrder(w.done) /\ InOrder(w.d) /\ InOrder(w.s)
    /\ \E n \in Int : Until(w.done, n) /\ From(w.d, n) /\ From(w.s, n)

OrHolds(w, K, p) == In(w.done, K, p) \/ In(w.d, K, p) \/ In(w.s, K, p)

\* A walk of sraSpanListOr that fits, and what it holds, by its parts.
LEMMA OrAt ==
  ASSUME NEW done, NEW d, NEW s
  PROVE  /\ \A n \in Int : (/\ InOrder(done) /\ InOrder(d) /\ InOrder(s)
                            /\ Until(done, n) /\ From(d, n) /\ From(s, n)) => OrFits(At(done, d, s))
         /\ \A K, p : OrHolds(At(done, d, s), K, p) <=> (In(done, K, p) \/ In(d, K, p) \/ In(s, K, p))
<1>1. At(done, d, s).done = done /\ At(done, d, s).d = d /\ At(done, d, s).s = s
  BY DEF At
<1>2. ASSUME NEW n \in Int, InOrder(done), InOrder(d), InOrder(s), Until(done, n), From(d, n), From(s, n)
      PROVE  OrFits(At(done, d, s))
  BY <1>1, <1>2 DEF OrFits
<1>3. ASSUME NEW K, NEW p
      PROVE  OrHolds(At(done, d, s), K, p) <=> (In(done, K, p) \/ In(d, K, p) \/ In(s, K, p))
  BY <1>1 DEF OrHolds
<1> QED BY <1>2, <1>3

\* The same where both lists have a span left.
LEMMA OrAmid ==
  ASSUME NEW T, NEW w, NEW done, NEW d1, NEW dt, NEW s1, NEW st, IsAmid(T, w, done, d1, dt, s1, st)
  PROVE  /\ OrFits(w) => /\ InOrder(done) /\ InOrder(dt) /\ InOrder(st)
                         /\ d1.start < d1.end /\ From(dt, d1.end)
                         /\ s1.start < s1.end /\ From(st, s1.end)
                         /\ \E n \in Int : Until(done, n) /\ n <= d1.start /\ n <= s1.start
         /\ \A K, p : OrHolds(w, K, p) <=> (In(done, K, p) \/ InSpan(d1, K, p) \/ In(dt, K, p)
                                              \/ InSpan(s1, K, p) \/ In(st, K, p))
<1>0. done \in ListsOf(T) /\ d1 \in SpanOf(T) /\ dt \in ListsOf(T) /\ s1 \in SpanOf(T) /\ st \in ListsOf(T)
  BY AmidstTypes
<1>1. w.done = done /\ w.d = <<d1>> \o dt /\ w.s = <<s1>> \o st
  BY AmidstParts, Zenon
<1>2. ASSUME OrFits(w)
      PROVE  /\ InOrder(done) /\ InOrder(dt) /\ InOrder(st)
             /\ d1.start < d1.end /\ From(dt, d1.end)
             /\ s1.start < s1.end /\ From(st, s1.end)
             /\ \E n \in Int : Until(done, n) /\ n <= d1.start /\ n <= s1.start
  <2>1. InOrder(done) /\ InOrder(<<d1>> \o dt) /\ InOrder(<<s1>> \o st)
    BY <1>1, <1>2 DEF OrFits
  <2>2. PICK n \in Int : Until(done, n) /\ From(<<d1>> \o dt, n) /\ From(<<s1>> \o st, n)
    BY <1>1, <1>2 DEF OrFits
  <2>3. InOrder(dt) /\ d1.start < d1.end /\ From(dt, d1.end)
    BY <1>0, <2>1, OrderFirst
  <2>4. InOrder(st) /\ s1.start < s1.end /\ From(st, s1.end)
    BY <1>0, <2>1, OrderFirst
  <2>5. n <= d1.start
    BY <1>0, <2>2, ListPrepend, Zenon
  <2>6. n <= s1.start
    BY <1>0, <2>2, ListPrepend, Zenon
  <2> QED BY <2>1, <2>2, <2>3, <2>4, <2>5, <2>6
<1>3. ASSUME NEW K, NEW p
      PROVE  OrHolds(w, K, p) <=> (In(done, K, p) \/ InSpan(d1, K, p) \/ In(dt, K, p)
                                              \/ InSpan(s1, K, p) \/ In(st, K, p))
  <2>1. In(w.d, K, p) <=> In(dt, K, p) \/ InSpan(d1, K, p)
    BY <1>0, <1>1, ListPrepend, Zenon
  <2>2. In(w.s, K, p) <=> In(st, K, p) \/ InSpan(s1, K, p)
    BY <1>0, <1>1, ListPrepend, Zenon
  <2> QED BY <1>1, <2>1, <2>2 DEF OrHolds
<1> QED BY <1>2, <1>3

\* What the spans of a walk that overlap become.
LEMMA OrMeetParts ==
  ASSUME NEW T \in SUBSET HLists, NEW inner, Closed(inner, T),
         NEW w, NEW done, NEW d1, NEW dt, NEW s1, NEW st, IsAmid(T, w, done, d1, dt, s1, st),
         OrFits(w), Overlapping(T, d1, s1)
  PROVE  LET e == Smaller(d1.end, s1.end)
             l == OrShared(inner, OrFirst(done, d1, s1), s1)
             rest == After(d1, s1) \o dt
         IN /\ l \in ListsOf(T) /\ l # <<>> /\ InOrder(l)
            /\ Last(l).end = e /\ Last(l).start < s1.end /\ Last(l).start < e
            /\ Last(l).sub = inner[d1.sub][s1.sub]
            /\ rest \in ListsOf(T) /\ InOrder(rest) /\ From(rest, e)
            /\ \A K : \A p \in Int : OrInner(inner, T, K) =>
                   /\ In(l, K, p) <=> (p < e /\ (In(done, K, p) \/ InSpan(d1, K, p) \/ InSpan(s1, K, p)))
                   /\ In(rest, K, p) <=> (e <= p /\ (InSpan(d1, K, p) \/ In(dt, K, p)))
                   /\ In(done, K, p) => p < e
                   /\ In(dt, K, p) => e <= p
<1> DEFINE e == Smaller(d1.end, s1.end)
           f == OrFirst(done, d1, s1)
           l == OrShared(inner, f, s1)
           rest == After(d1, s1) \o dt
           m == Greater(Last(f).start, s1.start)
<1>t. done \in ListsOf(T) /\ dt \in ListsOf(T)
  BY AmidstTypes
<1>1. /\ d1 \in SpanOf(T) /\ s1 \in SpanOf(T)
      /\ d1.start \in Int /\ d1.end \in Int /\ d1.sub \in T
      /\ s1.start \in Int /\ s1.end \in Int /\ s1.sub \in T
      /\ d1.start < d1.end /\ s1.start < s1.end /\ d1.start < s1.end /\ s1.start < d1.end
  BY OverlapTypes
<1>2. InOrder(done) /\ InOrder(dt) /\ From(dt, d1.end)
  BY OrAmid
<1>3. PICK n \in Int : Until(done, n) /\ n <= d1.start /\ n <= s1.start
  BY OrAmid
<1>4. f \in ListsOf(T) /\ f # <<>> /\ Last(f) \in SpanOf(T) /\ Last(f).end = d1.end /\ Last(f).sub = d1.sub
  BY <1>t, <1>1, FirstTypes, Zenon
<1>5. InOrder(f) /\ Last(f).start <= d1.start
  BY <1>t, <1>2, <1>3, FirstMeans
<1>6. ASSUME NEW K, NEW p \in Int
      PROVE  In(f, K, p) <=> (In(done, K, p) \/ InSpan(d1, K, p)
                                   \/ (s1.sub \in K /\ s1.start <= p /\ p < d1.start))
  BY <1>t, <1>2, <1>3, FirstMeans
<1> HIDE DEF f
<1>7. Overlapping(T, Last(f), s1)
  <2>1. Last(f).start \in Int /\ Last(f).end \in Int
    BY <1>4, SpanTypes
  <2> QED BY <1>1, <1>4, <1>5, <2>1 DEF Overlapping
<1>8. l \in ListsOf(T) /\ l # <<>> /\ Last(l) \in SpanOf(T)
  BY <1>1, <1>4, SharedTypes, Zenon
<1>9. Last(l).end = Smaller(Last(f).end, s1.end) /\ Last(l).sub = inner[Last(f).sub][s1.sub]
  <2>1. s1 \in SpanOf(T) /\ f \in ListsOf(T) /\ f # <<>>
    BY <1>1, <1>4
  <2> QED BY <2>1, SharedTypes, Zenon
<1>10. InOrder(l) /\ Last(l).start <= m
  BY <1>4, <1>5, <1>7, SharedMeans
<1>11. ASSUME NEW K, NEW p \in Int, OrInner(inner, T, K)
       PROVE  In(l, K, p) <=> (p < Smaller(Last(f).end, s1.end) /\ (In(f, K, p) \/ (s1.sub \in K /\ m <= p)))
  BY <1>4, <1>5, <1>7, <1>11, SharedMeans
<1> HIDE DEF l
<1>12. /\ Last(f).start \in Int /\ e \in Int /\ m \in Int
       /\ e <= d1.end /\ e <= s1.end /\ d1.start < e /\ s1.start < e
       /\ m < e /\ m < s1.end
       /\ \A p \in Int : d1.start <= p => (m <= p <=> s1.start <= p)
       /\ \A p \in Int : m <= p => s1.start <= p
  <2>1. Last(f).start \in Int
    BY <1>4, SpanTypes
  <2> QED BY <1>1, <1>5, <2>1 DEF Greater, Smaller
<1> HIDE DEF m
<1>13. Last(l).end = e /\ Last(l).sub = inner[d1.sub][s1.sub]
  BY <1>4, <1>9
<1>14. Last(l).start < s1.end /\ Last(l).start < e
  <2>1. Last(l).start \in Int
    BY <1>8, SpanTypes
  <2> HIDE DEF e
  <2> QED BY <1>1, <1>10, <1>12, <2>1
<1>15. rest \in ListsOf(T)
  BY <1>t, <1>1, RestTypes, Zenon
<1>16. /\ InOrder(rest) /\ From(rest, e)
       /\ \A K : \A p \in Int : In(rest, K, p) <=> e <= p /\ (InSpan(d1, K, p) \/ In(dt, K, p))
  BY <1>t, <1>2, RestMeans
<1> HIDE DEF rest
<1>17. ASSUME NEW K, NEW p \in Int, OrInner(inner, T, K)
       PROVE  /\ In(l, K, p) <=> (p < e /\ (In(done, K, p) \/ InSpan(d1, K, p) \/ InSpan(s1, K, p)))
              /\ In(done, K, p) => p < e
              /\ In(dt, K, p) => e <= p
  <2>1. In(l, K, p) <=> (p < e /\ (In(f, K, p) \/ (s1.sub \in K /\ m <= p)))
    BY <1>4, <1>11, <1>17
  <2> HIDE DEF e
  <2>2. In(done, K, p) => p < s1.start
    <3>1. n <= p => ~In(done, K, p)
      BY <1>t, <1>3, Outside
    <3> QED BY <1>1, <1>3, <3>1
  <2>3. In(dt, K, p) => d1.end <= p
    <3>1. p < d1.end => ~In(dt, K, p)
      BY <1>t, <1>1, <1>2, Outside
    <3> QED BY <1>1, <3>1
  <2>4. InSpan(s1, K, p) <=> s1.sub \in K /\ s1.start <= p /\ p < s1.end
    BY DEF InSpan
  <2>5. InSpan(d1, K, p) => d1.start <= p
    BY DEF InSpan
  <2>6. In(l, K, p) <=> (p < e /\ (In(done, K, p) \/ InSpan(d1, K, p) \/ InSpan(s1, K, p)))
    <3>1. CASE p < e
      <4>1. p < s1.end
        BY <1>1, <1>12, <3>1
      <4>2. CASE d1.start <= p
        <5>1. m <= p <=> s1.start <= p
          BY <1>12, <4>2
        <5>2. ~(p < d1.start)
          BY <1>1, <4>2
        <5> QED BY <1>6, <2>1, <2>4, <3>1, <4>1, <5>1, <5>2
      <4>3. CASE p < d1.start
        <5>1. m <= p => s1.start <= p
          BY <1>12
        <5> QED BY <1>6, <2>1, <2>4, <3>1, <4>1, <4>3, <5>1
      <4> QED BY <1>1, <4>2, <4>3
    <3>2. CASE ~(p < e)
      BY <2>1, <3>2
    <3> QED BY <3>1, <3>2
  <2>7. In(done, K, p) => p < e
    BY <1>1, <1>12, <2>2
  <2>8. In(dt, K, p) => e <= p
    BY <1>1, <1>12, <2>3
  <2> QED BY <2>6, <2>7, <2>8
<1> QED BY <1>8, <1>10, <1>13, <1>14, <1>15, <1>16, <1>17 DEF l, f, e, rest

\* Where the first spans overlap a turn keeps what the walk holds.
LEMMA OrMeetMeans ==
  ASSUME NEW T \in SUBSET HLists, NEW inner, Closed(inner, T),
         NEW w, NEW done, NEW d1, NEW dt, NEW s1, NEW st, IsAmid(T, w, done, d1, dt, s1, st),
         OrFits(w), Overlapping(T, d1, s1)
  PROVE  /\ OrFits(OrMeet(inner, w))
         /\ \A K : \A p \in Int : OrInner(inner, T, K) =>
               (OrHolds(OrMeet(inner, w), K, p) <=> OrHolds(w, K, p))
<1> DEFINE e == Smaller(d1.end, s1.end)
           l == OrShared(inner, OrFirst(done, d1, s1), s1)
           rest == After(d1, s1) \o dt
           x == Last(l)
           g == Front(l)
           r == MergeNext[<<x>> \o rest]
           h == Head(r)
           t == Tail(r)
           s2 == [s1 EXCEPT !.start = h.end]
<1>p. /\ w.done = done /\ Head(w.d) = d1 /\ Tail(w.d) = dt /\ Head(w.s) = s1 /\ Tail(w.s) = st
  BY AmidstParts, Zenon
<1>t. st \in ListsOf(T) /\ dt \in ListsOf(T)
  BY AmidstTypes
<1>1. /\ d1 \in SpanOf(T) /\ s1 \in SpanOf(T)
      /\ d1.start \in Int /\ d1.end \in Int /\ d1.sub \in T
      /\ s1.start \in Int /\ s1.end \in Int /\ s1.sub \in T
      /\ d1.start < d1.end /\ s1.start < s1.end /\ d1.start < s1.end /\ s1.start < d1.end
  BY OverlapTypes
<1>2. InOrder(st) /\ From(st, s1.end)
  BY OrAmid
<1>3. /\ l \in ListsOf(T) /\ l # <<>> /\ InOrder(l)
      /\ x.end = e /\ x.start < s1.end /\ x.start < e
      /\ x.sub = inner[d1.sub][s1.sub]
      /\ rest \in ListsOf(T) /\ InOrder(rest) /\ From(rest, e)
  BY OrMeetParts
<1>4. ASSUME NEW K, NEW p \in Int, OrInner(inner, T, K)
      PROVE  /\ In(l, K, p) <=> (p < e /\ (In(done, K, p) \/ InSpan(d1, K, p) \/ InSpan(s1, K, p)))
             /\ In(rest, K, p) <=> (e <= p /\ (InSpan(d1, K, p) \/ In(dt, K, p)))
             /\ In(done, K, p) => p < e
             /\ In(dt, K, p) => e <= p
  BY <1>4, OrMeetParts, Zenon
<1>5. OrMeet(inner, w) = IF s1.end > h.end THEN At(Append(g, h), t, <<s2>> \o st) ELSE At(g, r, st)
  <2>1. (<<x>> \o After(d1, s1)) \o dt = <<x>> \o rest
    <3>1. x \in SpanOf(T)
      BY <1>3, ListLast, Zenon
    <3>2. After(d1, s1) \in ListsOf(T)
      BY <1>1, Cut
    <3>3. <<x>> \in Seq(SpanOf(T)) /\ After(d1, s1) \in Seq(SpanOf(T)) /\ dt \in Seq(SpanOf(T))
      BY <1>t, <3>1, <3>2 DEF ListsOf
    <3> HIDE DEF x
    <3> QED BY <3>3, ConcatAssociative
  <2>2. r = MergeNext[<<x>> \o After(d1, s1) \o dt]
    BY <2>1, Zenon
  <2> QED BY <1>p, <2>2, Zenon DEF OrMeet
<1> HIDE DEF l, rest
<1>6. x \in SpanOf(T) /\ g \in ListsOf(T)
  BY <1>3, ListLast, Zenon
<1>7. InOrder(g) /\ Until(g, x.start)
  BY <1>3, LastMeans
<1>8. ASSUME NEW K, NEW p \in Int PROVE In(l, K, p) <=> (In(g, K, p) \/ InSpan(x, K, p))
  BY <1>3, LastMeans
<1> HIDE DEF x, g
<1>9. /\ r \in ListsOf(T) /\ h \in SpanOf(T) /\ t \in ListsOf(T)
      /\ InOrder(r) /\ InOrder(t) /\ From(t, h.end) /\ From(r, x.start)
      /\ h.start = x.start /\ h.sub = x.sub /\ h.start < h.end /\ x.end <= h.end
  BY <1>3, <1>6, NextMeans
<1>q. /\ \A K : \A p \in Int : In(r, K, p) <=> (InSpan(x, K, p) \/ In(rest, K, p))
      /\ \A K : \A p \in Int : In(r, K, p) <=> (InSpan(h, K, p) \/ In(t, K, p))
  <2>1. /\ x \in SpanOf(T) /\ x.start < x.end /\ rest \in ListsOf(T) /\ InOrder(rest) /\ From(rest, x.end)
    BY <1>3, <1>6
  <2> HIDE DEF h, t
  <2>2. \A K : \A p \in Int : In(r, K, p) <=> (InSpan(x, K, p) \/ In(rest, K, p))
    BY <2>1, NextMeans
  <2>3. \A K : \A p \in Int : In(r, K, p) <=> (InSpan(h, K, p) \/ In(t, K, p))
    BY <2>1, NextMeans, Zenon DEF h, t
  <2> QED BY <2>2, <2>3
<1>10. ASSUME NEW K, NEW p \in Int
       PROVE  /\ In(r, K, p) <=> (InSpan(x, K, p) \/ In(rest, K, p))
              /\ In(r, K, p) <=> (InSpan(h, K, p) \/ In(t, K, p))
  <2> HIDE DEF r, h, t
  <2> QED BY <1>q
<1> HIDE DEF r, h, t
<1>11. x.start \in Int /\ h.end \in Int /\ e \in Int /\ e <= d1.end /\ e <= s1.end /\ s1.start < e
  <2>1. x.start \in Int /\ h.end \in Int
    BY <1>6, <1>9, SpanTypes
  <2> QED BY <1>1, <2>1 DEF Smaller
<1> HIDE DEF e
\* What lies between the end of the shared span and that of its merge.
<1>12. ASSUME NEW K, NEW p \in Int, OrInner(inner, T, K)
       PROVE  OrHolds(w, K, p) <=>
                 (In(g, K, p) \/ In(r, K, p) \/ (InSpan(s1, K, p) /\ h.end <= p) \/ In(st, K, p))
  <2>1. OrHolds(w, K, p) <=> (In(done, K, p) \/ InSpan(d1, K, p) \/ In(dt, K, p)
                                  \/ InSpan(s1, K, p) \/ In(st, K, p))
    BY OrAmid
  <2>2. InSpan(s1, K, p) /\ e <= p /\ ~(h.end <= p) => In(r, K, p)
    <3>1. s1.sub \in K => h.sub \in K
      BY <1>1, <1>3, <1>9, <1>12 DEF OrInner
    <3>2. InSpan(s1, K, p) /\ e <= p /\ ~(h.end <= p) => InSpan(h, K, p)
      BY <1>1, <1>3, <1>9, <1>11, <3>1 DEF InSpan
    <3> QED BY <1>10, <3>2
  <2>3. In(l, K, p) <=> (In(g, K, p) \/ InSpan(x, K, p))
    BY <1>8
  <2>4. In(r, K, p) <=> (InSpan(x, K, p) \/ In(rest, K, p))
    BY <1>10
  <2>5. /\ In(l, K, p) <=> (p < e /\ (In(done, K, p) \/ InSpan(d1, K, p) \/ InSpan(s1, K, p)))
        /\ In(rest, K, p) <=> (e <= p /\ (InSpan(d1, K, p) \/ In(dt, K, p)))
        /\ In(done, K, p) => p < e
        /\ In(dt, K, p) => e <= p
    BY <1>4, <1>12
  <2>6. p < e <=> ~(e <= p)
    BY <1>11
  <2>7. h.end <= p => e <= p
    BY <1>3, <1>9, <1>11
  <2> QED BY <2>1, <2>2, <2>3, <2>4, <2>5, <2>6, <2>7
<1>13. CASE ~(s1.end > h.end)
  <2>1. OrMeet(inner, w) = At(g, r, st)
    BY <1>5, <1>13
  <2>2. From(st, x.start)
    BY <1>t, <1>1, <1>2, <1>3, <1>11, Later
  <2>3. OrFits(At(g, r, st))
    BY <1>2, <1>7, <1>9, <1>11, <2>2, OrAt
  <2>4. ASSUME NEW K, NEW p \in Int, OrInner(inner, T, K)
        PROVE  OrHolds(At(g, r, st), K, p) <=> OrHolds(w, K, p)
    <3>1. ~(InSpan(s1, K, p) /\ h.end <= p)
      BY <1>1, <1>11, <1>13 DEF InSpan
    <3>2. OrHolds(At(g, r, st), K, p) <=> (In(g, K, p) \/ In(r, K, p) \/ In(st, K, p))
      BY OrAt
    <3> QED BY <1>12, <2>4, <3>1, <3>2
  <2> QED BY <2>1, <2>3, <2>4
<1>14. CASE s1.end > h.end
  <2> DEFINE a == g \o <<h>>
             b == <<s2>> \o st
  <2>1. OrMeet(inner, w) = At(a, t, b)
    <3>1. Append(g, h) = a
      BY <1>6, <1>9, Appended
    <3> QED BY <1>5, <1>14, <3>1
  <2>2. s2 \in SpanOf(T) /\ s2.start = h.end /\ s2.end = s1.end /\ s2.sub = s1.sub
    BY <1>1, <1>9, <1>11 DEF SpanOf
  <2> HIDE DEF s2
  <2>3. InOrder(a) /\ Until(a, h.end)
    <3>1. InOrder(a)
      BY <1>6, <1>7, <1>9, OrderLast
    <3>2. Until(g, h.end)
      BY <1>6, <1>7, <1>9, <1>11, Later
    <3>3. h.end <= h.end
      BY <1>11
    <3> QED BY <1>6, <1>9, <3>1, <3>2, <3>3, ListAppend, Zenon
  <2>4. InOrder(b) /\ From(b, h.end)
    <3>1. s2.start < s2.end /\ h.end <= s2.start
      BY <1>1, <1>11, <1>14, <2>2
    <3>2. InOrder(b)
      BY <1>t, <1>2, <2>2, <3>1, OrderFirst
    <3>3. From(st, h.end)
      BY <1>t, <1>1, <1>2, <1>11, <1>14, Later
    <3> QED BY <1>t, <2>2, <3>1, <3>2, <3>3, ListPrepend
  <2>5. OrFits(At(a, t, b))
    <3> HIDE DEF a, b
    <3> QED BY <1>9, <1>11, <2>3, <2>4, OrAt
  <2>6. ASSUME NEW K, NEW p \in Int, OrInner(inner, T, K)
        PROVE  OrHolds(At(a, t, b), K, p) <=> OrHolds(w, K, p)
    <3>1. In(a, K, p) <=> In(g, K, p) \/ InSpan(h, K, p)
      BY <1>6, <1>9, ListAppend, Zenon
    <3>2. In(b, K, p) <=> In(st, K, p) \/ InSpan(s2, K, p)
      BY <1>t, <2>2, ListPrepend
    <3>3. InSpan(s2, K, p) <=> InSpan(s1, K, p) /\ h.end <= p
      <4>1. s1.start < h.end
        BY <1>1, <1>3, <1>9, <1>11
      <4> QED BY <1>1, <1>11, <2>2, <4>1 DEF InSpan
    <3> HIDE DEF a, b
    <3>4. OrHolds(At(a, t, b), K, p) <=> (In(a, K, p) \/ In(t, K, p) \/ In(b, K, p))
      BY OrAt
    <3>5. In(r, K, p) <=> (InSpan(h, K, p) \/ In(t, K, p))
      BY <1>10
    <3>6. OrHolds(w, K, p) <=>
             (In(g, K, p) \/ In(r, K, p) \/ (InSpan(s1, K, p) /\ h.end <= p) \/ In(st, K, p))
      BY <1>12, <2>6
    <3> QED BY <3>1, <3>2, <3>3, <3>4, <3>5, <3>6
  <2> QED BY <2>1, <2>5, <2>6, Zenon
<1> QED BY <1>13, <1>14

\* Every turn of sraSpanListOr keeps the order and what the walk holds.
LEMMA OrStepMeans ==
  ASSUME NEW T \in SUBSET HLists, NEW inner, Closed(inner, T), NEW w \in WalkOf(T), w.s # <<>>, OrFits(w)
  PROVE  /\ OrFits(OrStep(inner, w))
         /\ \A K : \A p \in Int : OrInner(inner, T, K) =>
               (OrHolds(OrStep(inner, w), K, p) <=> OrHolds(w, K, p))
<1>1. CASE w.d = <<>>
  <2> DEFINE s1 == Head(w.s)
             st == Tail(w.s)
             a == w.done \o <<s1>>
  <2>1. w.done \in ListsOf(T) /\ s1 \in SpanOf(T) /\ st \in ListsOf(T) /\ w.s = <<s1>> \o st
    <3>1. w.s \in ListsOf(T) /\ w.done \in ListsOf(T)
      BY DEF WalkOf
    <3> QED BY <3>1, ListHead
  <2>2. OrStep(inner, w) = At(a, <<>>, st)
    <3>1. Append(w.done, s1) = a
      BY <2>1, Appended, Zenon
    <3> QED BY <1>1, <3>1, Zenon DEF OrStep
  <2>3. PICK n \in Int : Until(w.done, n) /\ From(w.s, n)
    BY DEF OrFits
  <2>4. InOrder(w.done) /\ InOrder(w.s)
    BY DEF OrFits
  <2> HIDE DEF s1, st
  <2>5. InOrder(st) /\ s1.start < s1.end /\ From(st, s1.end)
    BY <2>1, <2>4, OrderFirst
  <2>6. n <= s1.start
    BY <2>1, <2>3, ListPrepend, Zenon
  <2>7. s1.start \in Int /\ s1.end \in Int
    BY <2>1, SpanTypes
  <2>8. InOrder(a)
    <3>1. Until(w.done, s1.start)
      BY <2>1, <2>3, <2>6, <2>7, Later
    <3> QED BY <2>1, <2>4, <2>5, <3>1, OrderLast
  <2>9. Until(a, s1.end)
    <3>1. Until(w.done, s1.end)
      <4>1. n <= s1.end
        BY <2>5, <2>6, <2>7
      <4> QED BY <2>1, <2>3, <2>7, <4>1, Later
    <3>2. s1.end <= s1.end
      BY <2>7
    <3> QED BY <2>1, <3>1, <3>2, ListAppend, Zenon
  <2>10. ASSUME NEW K, NEW p \in Int PROVE In(a, K, p) <=> In(w.done, K, p) \/ InSpan(s1, K, p)
    BY <2>1, ListAppend, Zenon
  <2>11. ASSUME NEW K, NEW p \in Int PROVE In(w.s, K, p) <=> In(st, K, p) \/ InSpan(s1, K, p)
    BY <2>1, ListPrepend, Zenon
  <2> HIDE DEF a
  <2>12. OrFits(At(a, <<>>, st))
    <3>1. InOrder(<<>>) /\ From(<<>>, s1.end)
      BY ListNone
    <3> QED BY <2>5, <2>7, <2>8, <2>9, <3>1, OrAt
  <2>13. ASSUME NEW K, NEW p \in Int PROVE OrHolds(At(a, <<>>, st), K, p) <=> OrHolds(w, K, p)
    <3>1. ~In(<<>>, K, p)
      BY ListNone
    <3>2. OrHolds(At(a, <<>>, st), K, p) <=> (In(a, K, p) \/ In(<<>>, K, p) \/ In(st, K, p))
      BY OrAt
    <3>3. OrHolds(w, K, p) <=> (In(w.done, K, p) \/ In(<<>>, K, p) \/ In(w.s, K, p))
      BY <1>1 DEF OrHolds
    <3> QED BY <2>10, <2>11, <3>1, <3>2, <3>3
  <2> QED BY <2>2, <2>12, <2>13
<1>2. CASE w.d # <<>>
  <2>1. PICK done, d1, dt, s1, st : IsAmid(T, w, done, d1, dt, s1, st)
    BY <1>2, Amidst
  <2>2. /\ w.done = done /\ w.d = <<d1>> \o dt /\ Head(w.d) = d1 /\ Tail(w.d) = dt
        /\ Head(w.s) = s1 /\ Tail(w.s) = st /\ w.s = <<s1>> \o st
    BY <2>1, AmidstParts, Zenon
  <2>t. done \in ListsOf(T) /\ d1 \in SpanOf(T) /\ dt \in ListsOf(T) /\ s1 \in SpanOf(T) /\ st \in ListsOf(T)
    BY <2>1, AmidstTypes
  <2>i. d1.start \in Int /\ d1.end \in Int /\ s1.start \in Int /\ s1.end \in Int
    BY <2>1, AmidstTypes
  <2>f. /\ InOrder(done) /\ InOrder(dt) /\ InOrder(st)
        /\ d1.start < d1.end /\ From(dt, d1.end)
        /\ s1.start < s1.end /\ From(st, s1.end)
    BY <2>1, OrAmid
  <2>n. PICK n \in Int : Until(done, n) /\ n <= d1.start /\ n <= s1.start
    BY <2>1, OrAmid
  <2>h. ASSUME NEW K, NEW p \in Int
        PROVE  OrHolds(w, K, p) <=> (In(done, K, p) \/ InSpan(d1, K, p) \/ In(dt, K, p)
                                       \/ InSpan(s1, K, p) \/ In(st, K, p))
    BY <2>1, OrAmid
  <2>3. CASE d1.start >= s1.end
    <3> DEFINE k == done \o <<s1>>
               l == k \o <<d1>>
               p1 == MergePrevious[l]
               g == Front(p1)
               h == Last(p1)
               b == <<h>> \o dt
    <3>1. OrStep(inner, w) = At(g, b, st)
      <4>1. Append(done, s1) = k /\ k \in ListsOf(T)
        BY <2>t, Appended
      <4> HIDE DEF k
      <4>2. Append(k, d1) = l
        BY <2>t, <4>1, Appended
      <4> QED BY <1>2, <2>2, <2>3, <4>1, <4>2, Zenon DEF OrStep
    <3>2. k \in ListsOf(T) /\ InOrder(k) /\ Until(k, s1.end)
      <4>1. Until(done, s1.start) /\ Until(done, s1.end)
        <5>1. n <= s1.end
          BY <2>i, <2>f, <2>n
        <5> QED BY <2>t, <2>i, <2>n, <5>1, Later
      <4>2. k \in ListsOf(T)
        BY <2>t, Appended
      <4>3. InOrder(k)
        BY <2>t, <2>f, <4>1, OrderLast
      <4>4. s1.end <= s1.end
        BY <2>i
      <4> QED BY <2>t, <4>1, <4>2, <4>3, <4>4, ListAppend, Zenon
    <3>3. ASSUME NEW K, NEW p \in Int PROVE In(k, K, p) <=> In(done, K, p) \/ InSpan(s1, K, p)
      BY <2>t, ListAppend, Zenon
    <3> HIDE DEF k
    <3>4. l \in ListsOf(T) /\ l # <<>> /\ InOrder(l) /\ Front(l) = k /\ Last(l) = d1
      <4>1. l \in ListsOf(T) /\ l # <<>> /\ Front(l) = k /\ Last(l) = d1
        BY <2>t, <3>2, Appended, Zenon
      <4>2. Until(k, d1.start)
        BY <2>i, <2>3, <3>2, Later
      <4> QED BY <2>t, <2>f, <3>2, <4>1, <4>2, OrderLast
    <3>5. ASSUME NEW K, NEW p \in Int PROVE In(l, K, p) <=> In(k, K, p) \/ InSpan(d1, K, p)
      BY <2>t, <3>2, ListAppend, Zenon
    <3> HIDE DEF l
    <3>6. p1 \in ListsOf(T) /\ p1 # <<>> /\ g \in ListsOf(T) /\ h \in SpanOf(T) /\ MergesPrevious(l, p1)
      BY <3>4, PreviousMerged, Zenon
    <3> HIDE DEF p1
    <3>7. InOrder(p1) /\ h.end = d1.end /\ Until(g, s1.end)
      BY <2>i, <3>2, <3>4, <3>6 DEF MergesPrevious, Merges
    <3>8. ASSUME NEW K, NEW p \in Int PROVE In(p1, K, p) <=> In(l, K, p)
      BY <3>4, <3>6 DEF MergesPrevious, Merges
    <3>9. InOrder(g) /\ Until(g, h.start) /\ h.start < h.end
      BY <3>6, <3>7, LastMeans
    <3>10. ASSUME NEW K, NEW p \in Int PROVE In(p1, K, p) <=> (In(g, K, p) \/ InSpan(h, K, p))
      BY <3>6, <3>7, LastMeans
    <3> HIDE DEF g, h
    <3>11. h.start \in Int
      BY <3>6, SpanTypes
    <3>12. InOrder(b)
      BY <2>t, <2>f, <3>6, <3>7, <3>9, OrderFirst
    <3> DEFINE c == Smaller(h.start, s1.end)
    <3>13. c \in Int /\ c <= h.start /\ c <= s1.end /\ (c = h.start \/ c = s1.end)
      BY <2>i, <3>11 DEF Smaller
    <3> HIDE DEF c
    <3>14. Until(g, c)
      BY <3>7, <3>9, <3>13
    <3>15. From(b, c)
      <4>1. c <= d1.end
        BY <2>i, <3>7, <3>9, <3>11, <3>13
      <4>2. From(dt, c)
        BY <2>t, <2>i, <2>f, <3>13, <4>1, Later
      <4> QED BY <2>t, <3>6, <3>13, <4>2, ListPrepend, Zenon
    <3>16. From(st, c)
      BY <2>t, <2>i, <2>f, <3>13, Later
    <3>17. ASSUME NEW K, NEW p \in Int PROVE In(b, K, p) <=> In(dt, K, p) \/ InSpan(h, K, p)
      BY <2>t, <3>6, ListPrepend, Zenon
    <3> HIDE DEF b
    <3>18. OrFits(At(g, b, st))
      BY <2>f, <3>9, <3>12, <3>13, <3>14, <3>15, <3>16, OrAt
    <3>19. ASSUME NEW K, NEW p \in Int PROVE OrHolds(At(g, b, st), K, p) <=> OrHolds(w, K, p)
      <4>1. OrHolds(At(g, b, st), K, p) <=> (In(g, K, p) \/ In(b, K, p) \/ In(st, K, p))
        BY OrAt
      <4> QED BY <2>h, <3>3, <3>5, <3>8, <3>10, <3>17, <4>1
    <3> QED BY <3>1, <3>18, <3>19
  <2>4. CASE ~(d1.start >= s1.end) /\ s1.start >= d1.end
    <3> DEFINE a == done \o <<d1>>
               b == <<s1>> \o st
    <3>1. OrStep(inner, w) = At(a, dt, b)
      <4>1. Append(done, d1) = a
        BY <2>t, Appended
      <4> QED BY <1>2, <2>2, <2>4, <4>1, Zenon DEF OrStep
    <3>2. InOrder(a) /\ Until(a, d1.end)
      <4>1. Until(done, d1.start) /\ Until(done, d1.end)
        <5>1. n <= d1.end
          BY <2>i, <2>f, <2>n
        <5> QED BY <2>t, <2>i, <2>n, <5>1, Later
      <4>2. InOrder(a)
        BY <2>t, <2>f, <4>1, OrderLast
      <4>3. d1.end <= d1.end
        BY <2>i
      <4> QED BY <2>t, <4>1, <4>2, <4>3, ListAppend, Zenon
    <3>3. InOrder(b) /\ From(b, d1.end)
      <4>1. InOrder(b)
        BY <2>t, <2>f, OrderFirst
      <4>2. d1.end <= s1.end /\ d1.end <= s1.start
        BY <2>i, <2>f, <2>4
      <4>3. From(st, d1.end)
        BY <2>t, <2>i, <2>f, <4>2, Later
      <4> QED BY <2>t, <4>1, <4>2, <4>3, ListPrepend, Zenon
    <3>4. ASSUME NEW K, NEW p \in Int PROVE In(a, K, p) <=> In(done, K, p) \/ InSpan(d1, K, p)
      BY <2>t, ListAppend, Zenon
    <3>5. ASSUME NEW K, NEW p \in Int PROVE In(b, K, p) <=> In(st, K, p) \/ InSpan(s1, K, p)
      BY <2>t, ListPrepend, Zenon
    <3> HIDE DEF a, b
    <3>6. OrFits(At(a, dt, b))
      BY <2>i, <2>f, <3>2, <3>3, OrAt
    <3>7. ASSUME NEW K, NEW p \in Int PROVE OrHolds(At(a, dt, b), K, p) <=> OrHolds(w, K, p)
      <4>1. OrHolds(At(a, dt, b), K, p) <=> (In(a, K, p) \/ In(dt, K, p) \/ In(b, K, p))
        BY OrAt
      <4> QED BY <2>h, <3>4, <3>5, <4>1
    <3> QED BY <3>1, <3>6, <3>7
  <2>5. CASE ~(d1.start >= s1.end) /\ ~(s1.start >= d1.end)
    <3>1. OrStep(inner, w) = OrMeet(inner, w)
      BY <1>2, <2>2, <2>5 DEF OrStep
    <3>2. Overlapping(T, d1, s1)
      BY <2>t, <2>i, <2>f, <2>5 DEF Overlapping
    <3> QED BY <2>1, <3>1, <3>2, OrMeetMeans
  <2> QED BY <2>3, <2>4, <2>5
<1> QED BY <1>1, <1>2

\* Walks over lists of either kind.
LEMMA Walks ==
  /\ Walk = WalkOf(HLists)
  /\ \A T \in SUBSET HLists : WalkOf(T) \subseteq Walk
  /\ \A T : \A w \in WalkOf(T) : Size(w) \in Nat
<1>1. Walk = WalkOf(HLists)
  BY BothKinds DEF Walk, WalkOf
<1>2. ASSUME NEW T \in SUBSET HLists, NEW w \in WalkOf(T) PROVE w \in Walk
  BY BothKinds DEF Walk, WalkOf
<1>3. ASSUME NEW T, NEW w \in WalkOf(T) PROVE Size(w) \in Nat
  <2>1. Len(w.d) \in Nat /\ Len(w.s) \in Nat
    BY LenProperties DEF WalkOf, ListsOf
  <2> DEFINE i == Len(w.d)
             j == Len(w.s)
             k == IF Overlap(w) THEN 1 ELSE 0
  <2>2. i \in Nat /\ j \in Nat /\ k \in 0..1 /\ Size(w) = 2 * i + 4 * j + k
    BY <2>1 DEF Size
  <2> HIDE DEF i, j, k
  <2> QED BY <2>2
<1> QED BY <1>1, <1>2, <1>3

\* Every list in order lies behind some number.
LEMMA Below ==
  ASSUME NEW T, NEW l \in ListsOf(T), InOrder(l)
  PROVE  \E n \in Int : From(l, n)
<1>1. CASE l = <<>>
  BY <1>1, ListNone
<1>2. CASE l # <<>>
  <2> DEFINE x == Head(l)
             t == Tail(l)
  <2>1. x \in SpanOf(T) /\ t \in ListsOf(T) /\ l = <<x>> \o t
    BY <1>2, ListHead
  <2> HIDE DEF x, t
  <2>2. x.start \in Int /\ x.end \in Int
    BY <2>1, SpanTypes
  <2>3. x.start < x.end /\ From(t, x.end)
    BY <2>1, OrderFirst
  <2>4. From(t, x.start) /\ x.start <= x.start
    <3>1. x.start <= x.end /\ x.start <= x.start
      BY <2>2, <2>3
    <3> QED BY <2>1, <2>2, <2>3, <3>1, Later
  <2>5. From(l, x.start)
    BY <2>1, <2>4, ListPrepend, Zenon
  <2> QED BY <2>2, <2>5
<1> QED BY <1>1, <1>2

\* So do two lists.
LEMMA BelowBoth ==
  ASSUME NEW T, NEW a \in ListsOf(T), NEW b \in ListsOf(T), InOrder(a), InOrder(b)
  PROVE  \E n \in Int : From(a, n) /\ From(b, n)
<1>1. PICK n \in Int : From(a, n)
  BY Below
<1>2. PICK m \in Int : From(b, m)
  BY Below
<1>3. CASE n <= m
  BY <1>1, <1>2, <1>3, Later
<1>4. CASE m <= n
  BY <1>1, <1>2, <1>4, Later
<1> QED BY <1>3, <1>4

-----------------------------------------------------------------------------
IsOrWalk(inner, f) ==
    f = [w \in Walk |-> IF w.s = <<>> THEN w.done \o w.d ELSE f[OrStep(inner, w)]]

\* The loop of sraSpanListOr has a result for every walk.
LEMMA OrWalk ==
  ASSUME NEW inner, Closed(inner, HLists)
  PROVE  \E f : /\ IsOrWalk(inner, f)
                /\ OrLists(inner) = [d \in Lists |-> [s \in Lists |-> f[At(<<>>, d, s)]]]
<1> DEFINE E == {w \in Walk : w.s = <<>>}
           res == [w \in Walk |-> w.done \o w.d]
           step == [w \in Walk |-> IF w.s = <<>> THEN w ELSE OrStep(inner, w)]
           m == [w \in Walk |-> Size(w)]
<1>1. ASSUME NEW w \in Walk, w.s # <<>>
      PROVE  OrStep(inner, w) \in Walk /\ Size(OrStep(inner, w)) < Size(w)
  BY <1>1, Walks, OrStepShrinks
<1>2. /\ m \in [Walk -> Nat] /\ res \in [Walk -> Lists] /\ step \in [Walk -> Walk] /\ Lists # {}
  <2>1. m \in [Walk -> Nat]
    BY Walks
  <2>2. ASSUME NEW w \in Walk PROVE w.done \o w.d \in Lists
    <3>1. w.done \in ListsOf(HLists) /\ w.d \in ListsOf(HLists)
      BY Walks DEF WalkOf
    <3> QED BY <3>1, ListJoin, BothKinds, Zenon
  <2>3. step \in [Walk -> Walk]
    BY <1>1
  <2>4. Lists # {}
    BY BothKinds, ListNone
  <2> QED BY <2>1, <2>2, <2>3, <2>4
<1>3. \A w \in Walk : w \notin E => m[step[w]] < m[w]
  BY <1>1, <1>2
<1>4. PICK f \in [Walk -> Lists] : Loops(Walk, E, res, step, f)
  <2> HIDE DEF E, res, step, m
  <2> QED BY <1>2, <1>3, While, Zenon
<1>5. f = [w \in Walk |-> IF w.s = <<>> THEN w.done \o w.d ELSE f[OrStep(inner, w)]]
  BY <1>4, Zenon DEF Loops
<1> DEFINE g == CHOOSE g : g = [w \in Walk |-> IF w.s = <<>> THEN w.done \o w.d ELSE g[OrStep(inner, w)]]
<1>6. g = [w \in Walk |-> IF w.s = <<>> THEN w.done \o w.d ELSE g[OrStep(inner, w)]]
  BY <1>5, Zenon
<1>7. OrLists(inner) = [d \in Lists |-> [s \in Lists |-> g[At(<<>>, d, s)]]]
  BY DEF OrLists
<1> HIDE DEF g
<1>8. IsOrWalk(inner, g)
  BY <1>6, Zenon DEF IsOrWalk
<1> QED BY <1>7, <1>8

OrResult(inner, T, w, l) ==
    /\ l \in ListsOf(T)
    /\ OrFits(w) => InOrder(l)
    /\ OrFits(w) => \A K : \A p \in Int : OrInner(inner, T, K) => (In(l, K, p) <=> OrHolds(w, K, p))

\* It holds what the walk held, in order.
LEMMA OrRun ==
  ASSUME NEW inner, Closed(inner, HLists), NEW T \in SUBSET HLists, Closed(inner, T),
         NEW f, IsOrWalk(inner, f), NEW w \in WalkOf(T)
  PROVE  OrResult(inner, T, w, f[w])
<1> DEFINE X == WalkOf(T)
           G == {v \in X : OrResult(inner, T, v, f[v])}
           m == [v \in X |-> Size(v)]
<1>1. ASSUME NEW v \in X, \A u \in X : Size(u) < Size(v) => u \in G PROVE OrResult(inner, T, v, f[v])
  <2>1. v \in Walk
    BY Walks
  <2>2. CASE v.s = <<>>
    <3> DEFINE l == v.done \o v.d
    <3>1. f[v] = l
      BY <2>1, <2>2, Zenon DEF IsOrWalk
    <3>2. v.done \in ListsOf(T) /\ v.d \in ListsOf(T)
      BY DEF WalkOf
    <3>3. l \in ListsOf(T)
      BY <3>2, ListJoin, Zenon
    <3>4. ASSUME OrFits(v) PROVE InOrder(l)
      <4>1. PICK n \in Int : Until(v.done, n) /\ From(v.d, n) /\ InOrder(v.done) /\ InOrder(v.d)
        BY <3>4 DEF OrFits
      <4> QED BY <3>2, <4>1, OrderJoin
    <3>5. ASSUME NEW K, NEW p \in Int PROVE In(l, K, p) <=> OrHolds(v, K, p)
      <4>1. In(l, K, p) <=> In(v.done, K, p) \/ In(v.d, K, p)
        BY <3>2, ListJoin
      <4>2. ~In(v.s, K, p)
        BY <2>2, ListNone
      <4> QED BY <4>1, <4>2 DEF OrHolds
    <3> HIDE DEF l
    <3> QED BY <3>1, <3>3, <3>4, <3>5 DEF OrResult
  <2>3. CASE v.s # <<>>
    <3> DEFINE u == OrStep(inner, v)
    <3>1. f[v] = f[u]
      BY <2>1, <2>3, Zenon DEF IsOrWalk
    <3>2. u \in X /\ Size(u) < Size(v)
      BY <2>3, OrStepShrinks
    <3>3. OrResult(inner, T, u, f[u])
      BY <1>1, <3>2
    <3>4. OrFits(v) => /\ OrFits(u)
                       /\ \A K : \A p \in Int : OrInner(inner, T, K) => (OrHolds(u, K, p) <=> OrHolds(v, K, p))
      BY <2>3, OrStepMeans
    <3> HIDE DEF u
    <3> QED BY <3>1, <3>3, <3>4 DEF OrResult
  <2> QED BY <2>2, <2>3
<1>2. X \subseteq G
  <2>1. m \in [X -> Nat]
    BY Walks
  <2>2. \A x \in X : (\A z \in X : m[z] < m[x] => z \in G) => x \in G
    BY <1>1
  <2> HIDE DEF X, G, m
  <2> QED BY <2>1, <2>2, Induction
<1> QED BY <1>2

\* sraSpanListOr, at either level: what is held in one list or the other.
LEMMA OrListsMeans ==
  ASSUME NEW inner, Closed(inner, HLists), NEW T \in SUBSET HLists, Closed(inner, T),
         NEW a \in ListsOf(T), NEW b \in ListsOf(T)
  PROVE  LET l == OrLists(inner)[a][b] IN
         /\ l \in ListsOf(T)
         /\ InOrder(a) /\ InOrder(b) => InOrder(l)
         /\ InOrder(a) /\ InOrder(b) => \A K : \A p \in Int : OrInner(inner, T, K) =>
                (In(l, K, p) <=> (In(a, K, p) \/ In(b, K, p)))
<1> DEFINE w == At(<<>>, a, b)
           l == OrLists(inner)[a][b]
<1>1. PICK f : /\ IsOrWalk(inner, f)
               /\ OrLists(inner) = [d \in Lists |-> [s \in Lists |-> f[At(<<>>, d, s)]]]
  BY OrWalk
<1>2. l = f[w]
  <2>1. a \in Lists /\ b \in Lists
    BY BothKinds
  <2> QED BY <1>1, <2>1
<1>3. w \in WalkOf(T)
  BY ListNone, AtTypes
<1>4. OrResult(inner, T, w, l)
  <2> HIDE DEF w, l
  <2> QED BY <1>1, <1>2, <1>3, OrRun
<1>5. ASSUME InOrder(a), InOrder(b) PROVE OrFits(w)
  <2>1. PICK n \in Int : From(a, n) /\ From(b, n)
    BY <1>5, BelowBoth
  <2>2. InOrder(<<>>) /\ Until(<<>>, n)
    BY ListNone
  <2> QED BY <1>5, <2>1, <2>2, OrAt
<1>6. ASSUME NEW K, NEW p PROVE OrHolds(w, K, p) <=> (In(a, K, p) \/ In(b, K, p))
  <2>1. ~In(<<>>, K, p)
    BY ListNone
  <2> QED BY <2>1, OrAt
<1> HIDE DEF w, l
<1> QED BY <1>4, <1>5, <1>6 DEF OrResult, l

-----------------------------------------------------------------------------
(* The loops of sraSpanListAnd and sraSpanListSubtract. *)

\* The rest of d, after its first span has met that of s, is a shorter walk.
LEMMA RestShrinks ==
  ASSUME NEW T, NEW w, NEW done, NEW d1, NEW dt, NEW s1, NEW st, IsAmid(T, w, done, d1, dt, s1, st),
         ~(d1.start >= s1.end), ~(d1.end <= s1.start), NEW a, a \in ListsOf(T)
  PROVE  LET rest == After(d1, s1) \o dt IN
         /\ At(a, rest, w.s) \in WalkOf(T) /\ Size(At(a, rest, w.s)) < Size(w)
         /\ At(a, rest, st) \in WalkOf(T) /\ Size(At(a, rest, st)) < Size(w)
<1> DEFINE rest == After(d1, s1) \o dt
<1>0. w \in WalkOf(T) /\ Len(w.d) = Len(dt) + 1 /\ Len(w.s) = Len(st) + 1 /\ Len(dt) \in Nat /\ Len(st) \in Nat
  BY AmidstParts, Zenon
<1>1. w.d # <<>> /\ w.s # <<>> /\ Head(w.d) = d1 /\ Head(w.s) = s1 /\ w.s \in ListsOf(T)
  BY AmidstParts, Zenon
<1>2. d1 \in SpanOf(T) /\ dt \in ListsOf(T) /\ s1 \in SpanOf(T) /\ st \in ListsOf(T)
  BY AmidstTypes
<1>3. d1.start \in Int /\ d1.end \in Int /\ s1.start \in Int /\ s1.end \in Int
  BY AmidstTypes
<1>4. rest \in ListsOf(T) /\ Len(rest) \in Nat /\ Len(rest) <= Len(dt) + 1
  BY <1>2, RestTypes, Zenon
<1>5. Len(rest) <= Len(w.d) + 1 /\ Len(rest) <= Len(w.d) /\ Len(st) < Len(w.s)
  <2> DEFINE i == Len(rest)
             j == Len(dt)
  <2>1. i \in Nat /\ j \in Nat /\ i <= j + 1 /\ Len(w.d) = j + 1
    BY <1>0, <1>4
  <2> HIDE DEF i, j
  <2>2. i <= Len(w.d) + 1 /\ i <= Len(w.d)
    BY <2>1
  <2> QED BY <1>0, <2>2 DEF i
<1>6. At(a, rest, st) \in WalkOf(T) /\ Size(At(a, rest, st)) < Size(w)
  <2> HIDE DEF rest
  <2> QED BY <1>0, <1>2, <1>4, <1>5, AtShrinks
<1>7. At(a, rest, w.s) \in WalkOf(T) /\ Size(At(a, rest, w.s)) < Size(w)
  <2>1. CASE d1.end <= s1.end
    <3>1. After(d1, s1) = <<>>
      BY <1>3, <2>1 DEF After
    <3>2. rest = dt
      BY <1>2, <3>1, ConcatEmptySeq DEF ListsOf
    <3>3. Len(dt) < Len(w.d) /\ Len(w.s) = Len(w.s)
      BY <1>0
    <3> HIDE DEF rest
    <3> QED BY <1>0, <1>1, <1>2, <3>2, <3>3, AtShrinks
  <2>2. CASE s1.end < d1.end
    <3> DEFINE b == Span(s1.end, d1.end, d1.sub)
               v == At(a, rest, w.s)
    <3>1. rest = <<b>> \o dt
      BY <1>3, <2>2 DEF After
    <3>2. b \in SpanOf(T) /\ b.start = s1.end
      BY <1>2, <1>3 DEF Span, SpanOf
    <3> HIDE DEF b
    <3>3. Head(rest) = b /\ Len(rest) = Len(w.d)
      <4>1. Head(<<b>> \o dt) = b /\ Len(<<b>> \o dt) = Len(dt) + 1
        BY <1>2, <3>2, Prepended
      <4> HIDE DEF rest
      <4> QED BY <1>0, <3>1, <4>1
    <3> HIDE DEF rest
    <3>4. v.d = rest /\ v.s = w.s
      BY DEF At
    <3>5. ~Overlap(v)
      BY <1>1, <1>3, <3>2, <3>3, <3>4 DEF Overlap
    <3>6. Overlap(w)
      BY <1>1, <1>3 DEF Overlap
    <3> QED BY <1>0, <1>1, <1>4, <3>3, <3>5, <3>6, AtShrinks
  <2> QED BY <1>3, <2>1, <2>2
<1> QED BY <1>6, <1>7

AndClosed(inner, T) ==
    \A a, b \in T : (a # <<>> /\ inner[a][b] = <<>>) \/ inner[a][b] \in T

\* Every turn of sraSpanListAnd makes the walk shorter.
LEMMA AndStepShrinks ==
  ASSUME NEW T \in SUBSET HLists, NEW inner, AndClosed(inner, T), NEW w, w \in WalkOf(T), w.d # <<>>, w.s # <<>>
  PROVE  AndStep(inner, w) \in WalkOf(T) /\ Size(AndStep(inner, w)) < Size(w)
<1>1. PICK done, d1, dt, s1, st : IsAmid(T, w, done, d1, dt, s1, st)
  BY Amidst
<1> DEFINE both == Shared(d1, s1, inner[d1.sub][s1.sub])
           rest == After(d1, s1) \o dt
<1>2. /\ w.done = done /\ Head(w.d) = d1 /\ Tail(w.d) = dt /\ Head(w.s) = s1 /\ Tail(w.s) = st
  BY <1>1, AmidstParts, Zenon
<1>3. /\ w.s \in ListsOf(T) /\ w.d \in ListsOf(T) /\ Len(w.d) = Len(dt) + 1 /\ Len(w.s) = Len(st) + 1
      /\ Len(dt) \in Nat /\ Len(st) \in Nat
  BY <1>1, AmidstParts, Zenon
<1>t. done \in ListsOf(T) /\ d1 \in SpanOf(T) /\ dt \in ListsOf(T) /\ s1 \in SpanOf(T) /\ st \in ListsOf(T)
  BY <1>1, AmidstTypes
<1>i. d1.start \in Int /\ d1.end \in Int /\ d1.sub \in T /\ s1.start \in Int /\ s1.end \in Int /\ s1.sub \in T
  BY <1>1, AmidstTypes
<1>4. CASE d1.start >= s1.end
  <2>1. AndStep(inner, w) = At(done, w.d, st)
    BY <1>2, <1>4, Zenon DEF AndStep
  <2>2. Len(w.d) <= Len(w.d) + 1 /\ Len(st) < Len(w.s)
    BY <1>3
  <2> QED BY <1>t, <1>3, <2>1, <2>2, AtShrinks
<1>5. CASE ~(d1.start >= s1.end) /\ d1.end <= s1.start
  <2>1. AndStep(inner, w) = At(done, dt, w.s)
    BY <1>2, <1>5, Zenon DEF AndStep
  <2>2. Len(dt) < Len(w.d) /\ Len(w.s) = Len(w.s)
    BY <1>3
  <2> QED BY <1>t, <1>3, <2>1, <2>2, AtShrinks
<1>6. CASE /\ ~(d1.start >= s1.end) /\ ~(d1.end <= s1.start)
           /\ d1.sub # <<>> /\ both.sub = <<>>
  <2>1. AndStep(inner, w) = At(done, rest, w.s)
    BY <1>2, <1>6, Zenon DEF AndStep
  <2> QED BY <1>1, <1>t, <1>6, <2>1, RestShrinks
<1>7. CASE /\ ~(d1.start >= s1.end) /\ ~(d1.end <= s1.start)
           /\ ~(d1.sub # <<>> /\ both.sub = <<>>)
  <2> DEFINE k == done \o <<both>>
             a == MergePrevious[k]
  <2>1. AndStep(inner, w) = At(a, rest, IF s1.end <= both.end THEN st ELSE w.s)
    <3>1. Append(done, both) = k
      BY <1>t, AppendIsConcat DEF ListsOf
    <3> QED BY <1>2, <1>7, <3>1, Zenon DEF AndStep
  <2>2. both \in SpanOf(T)
    <3>1. both.sub = inner[d1.sub][s1.sub]
      BY DEF Shared, Span
    <3>2. inner[d1.sub][s1.sub] \in T
      BY <1>i, <1>7, <3>1 DEF AndClosed
    <3> QED BY <1>t, <3>2, Cut
  <2> HIDE DEF both, rest
  <2>3. k \in ListsOf(T) /\ k # <<>>
    BY <1>t, <2>2, ListAppend, LastOne
  <2> HIDE DEF k
  <2>4. a \in ListsOf(T)
    BY <2>3, PreviousMerged, Zenon
  <2> HIDE DEF a
  <2>5. At(a, rest, w.s) \in WalkOf(T) /\ Size(At(a, rest, w.s)) < Size(w)
    BY <1>1, <1>7, <2>4, RestShrinks DEF rest
  <2>6. At(a, rest, st) \in WalkOf(T) /\ Size(At(a, rest, st)) < Size(w)
    BY <1>1, <1>7, <2>4, RestShrinks DEF rest
  <2> QED BY <2>1, <2>5, <2>6
<1> QED BY <1>4, <1>5, <1>6, <1>7

\* A walk whose destination is in order; the source may begin anywhere.
Fits(w) ==
    /\ InOrder(w.done) /\ InOrder(w.d) /\ InOrder(w.s)
    /\ \E n \in Int : Until(w.done, n) /\ From(w.d, n)

\* A walk in order, by its parts.
LEMMA FitsAt ==
  ASSUME NEW done, NEW d, NEW s
  PROVE  \A n \in Int : (/\ InOrder(done) /\ InOrder(d) /\ InOrder(s)
                         /\ Until(done, n) /\ From(d, n)) => Fits(At(done, d, s))
<1>1. At(done, d, s).done = done /\ At(done, d, s).d = d /\ At(done, d, s).s = s
  BY DEF At
<1> QED BY <1>1 DEF Fits

\* The order of the parts where both lists have a span left.
LEMMA FitsAmid ==
  ASSUME NEW T, NEW w, NEW done, NEW d1, NEW dt, NEW s1, NEW st, IsAmid(T, w, done, d1, dt, s1, st), Fits(w)
  PROVE  /\ InOrder(done) /\ InOrder(dt) /\ InOrder(st) /\ InOrder(w.d) /\ InOrder(w.s)
         /\ d1.start < d1.end /\ From(dt, d1.end)
         /\ s1.start < s1.end /\ From(st, s1.end)
         /\ Until(done, d1.start) /\ From(w.d, d1.start)
<1>0. done \in ListsOf(T) /\ d1 \in SpanOf(T) /\ dt \in ListsOf(T) /\ s1 \in SpanOf(T) /\ st \in ListsOf(T)
  BY AmidstTypes
<1>i. d1.start \in Int /\ d1.end \in Int
  BY AmidstTypes
<1>1. w.done = done /\ w.d = <<d1>> \o dt /\ w.s = <<s1>> \o st
  BY AmidstParts, Zenon
<1>2. InOrder(done) /\ InOrder(w.d) /\ InOrder(w.s)
  BY <1>1 DEF Fits
<1>3. PICK n \in Int : Until(done, n) /\ From(<<d1>> \o dt, n)
  BY <1>1 DEF Fits
<1>4. InOrder(dt) /\ d1.start < d1.end /\ From(dt, d1.end)
  BY <1>0, <1>1, <1>2, OrderFirst
<1>5. InOrder(st) /\ s1.start < s1.end /\ From(st, s1.end)
  BY <1>0, <1>1, <1>2, OrderFirst
<1>6. n <= d1.start
  BY <1>0, <1>3, ListPrepend, Zenon
<1>7. Until(done, d1.start)
  BY <1>0, <1>i, <1>3, <1>6, Later
<1>8. From(dt, d1.start)
  <2>1. d1.start <= d1.end
    BY <1>i, <1>4
  <2> QED BY <1>0, <1>i, <1>4, <2>1, Later
<1>9. From(w.d, d1.start)
  <2>1. d1.start <= d1.start
    BY <1>i
  <2> QED BY <1>0, <1>1, <1>8, <2>1, ListPrepend, Zenon
<1> QED BY <1>2, <1>4, <1>5, <1>7, <1>9

\* What the parts of such a walk hold, and where.
LEMMA MeansAmid ==
  ASSUME NEW T, NEW w, NEW done, NEW d1, NEW dt, NEW s1, NEW st, IsAmid(T, w, done, d1, dt, s1, st), Fits(w)
  PROVE  \A K : \A p \in Int :
            /\ In(w.d, K, p) <=> (InSpan(d1, K, p) \/ In(dt, K, p))
            /\ In(w.s, K, p) <=> (InSpan(s1, K, p) \/ In(st, K, p))
            /\ In(done, K, p) => p < d1.start
            /\ In(dt, K, p) => d1.end <= p
            /\ In(st, K, p) => s1.end <= p
<1>0. done \in ListsOf(T) /\ d1 \in SpanOf(T) /\ dt \in ListsOf(T) /\ s1 \in SpanOf(T) /\ st \in ListsOf(T)
  BY AmidstTypes
<1>i. d1.start \in Int /\ d1.end \in Int /\ s1.end \in Int
  BY AmidstTypes
<1>1. w.done = done /\ w.d = <<d1>> \o dt /\ w.s = <<s1>> \o st
  BY AmidstParts, Zenon
<1>f. Until(done, d1.start) /\ From(dt, d1.end) /\ From(st, s1.end)
  BY FitsAmid
<1>2. ASSUME NEW K, NEW p \in Int
      PROVE  /\ In(w.d, K, p) <=> (InSpan(d1, K, p) \/ In(dt, K, p))
             /\ In(w.s, K, p) <=> (InSpan(s1, K, p) \/ In(st, K, p))
             /\ In(done, K, p) => p < d1.start
             /\ In(dt, K, p) => d1.end <= p
             /\ In(st, K, p) => s1.end <= p
  <2>1. In(w.d, K, p) <=> (InSpan(d1, K, p) \/ In(dt, K, p))
    BY <1>0, <1>1, ListPrepend, Zenon
  <2>2. In(w.s, K, p) <=> (InSpan(s1, K, p) \/ In(st, K, p))
    BY <1>0, <1>1, ListPrepend, Zenon
  <2>3. In(done, K, p) => p < d1.start
    <3>1. d1.start <= p => ~In(done, K, p)
      BY <1>0, <1>i, <1>f, Outside
    <3> QED BY <1>i, <3>1
  <2>4. In(dt, K, p) => d1.end <= p
    <3>1. p < d1.end => ~In(dt, K, p)
      BY <1>0, <1>i, <1>f, Outside
    <3> QED BY <1>i, <3>1
  <2>5. In(st, K, p) => s1.end <= p
    <3>1. p < s1.end => ~In(st, K, p)
      BY <1>0, <1>i, <1>f, Outside
    <3> QED BY <1>i, <3>1
  <2> QED BY <2>1, <2>2, <2>3, <2>4, <2>5
<1> QED BY <1>2

\* What inner must do for And.
AndInner(inner, T, K) ==
    \A a, b \in T : IF a # <<>> /\ inner[a][b] = <<>> THEN ~(a \in K /\ b \in K)
                    ELSE inner[a][b] \in T /\ (inner[a][b] \in K <=> a \in K /\ b \in K)

AndHolds(w, K, p) == In(w.done, K, p) \/ (In(w.d, K, p) /\ In(w.s, K, p))

\* What a walk of sraSpanListAnd holds, by its parts.
LEMMA AndAt ==
  ASSUME NEW done, NEW d, NEW s
  PROVE  \A K, p : AndHolds(At(done, d, s), K, p) <=> (In(done, K, p) \/ (In(d, K, p) /\ In(s, K, p)))
<1>1. At(done, d, s).done = done /\ At(done, d, s).d = d /\ At(done, d, s).s = s
  BY DEF At
<1> QED BY <1>1 DEF AndHolds

\* Every turn of sraSpanListAnd keeps the order and what the walk holds.
LEMMA AndStepMeans ==
  ASSUME NEW T \in SUBSET HLists, NEW inner, AndClosed(inner, T),
         NEW w, w \in WalkOf(T), w.d # <<>>, w.s # <<>>, Fits(w)
  PROVE  /\ Fits(AndStep(inner, w))
         /\ \A K : \A p \in Int : AndInner(inner, T, K) =>
               (AndHolds(AndStep(inner, w), K, p) <=> AndHolds(w, K, p))
<1>1. PICK done, d1, dt, s1, st : IsAmid(T, w, done, d1, dt, s1, st)
  BY Amidst
<1> DEFINE both == Shared(d1, s1, inner[d1.sub][s1.sub])
           rest == After(d1, s1) \o dt
           e == Smaller(d1.end, s1.end)
<1>2. /\ w.done = done /\ Head(w.d) = d1 /\ Tail(w.d) = dt /\ Head(w.s) = s1 /\ Tail(w.s) = st
  BY <1>1, AmidstParts, Zenon
<1>3. w.s \in ListsOf(T) /\ w.d \in ListsOf(T) 
  BY <1>1, AmidstParts, Zenon
<1>t. done \in ListsOf(T) /\ d1 \in SpanOf(T) /\ dt \in ListsOf(T) /\ s1 \in SpanOf(T) /\ st \in ListsOf(T)
  BY <1>1, AmidstTypes
<1>i. d1.start \in Int /\ d1.end \in Int /\ d1.sub \in T /\ s1.start \in Int /\ s1.end \in Int /\ s1.sub \in T
  BY <1>1, AmidstTypes
<1>f. /\ InOrder(done) /\ InOrder(dt) /\ InOrder(st) /\ InOrder(w.d) /\ InOrder(w.s)
      /\ d1.start < d1.end /\ From(dt, d1.end)
      /\ s1.start < s1.end /\ From(st, s1.end)
      /\ Until(done, d1.start) /\ From(w.d, d1.start)
  BY <1>1, FitsAmid
<1>h. ASSUME NEW K, NEW p \in Int
      PROVE  /\ AndHolds(w, K, p) <=> (In(done, K, p) \/ (In(w.d, K, p) /\ In(w.s, K, p)))
             /\ In(w.d, K, p) <=> (InSpan(d1, K, p) \/ In(dt, K, p))
             /\ In(w.s, K, p) <=> (InSpan(s1, K, p) \/ In(st, K, p))
             /\ In(done, K, p) => p < d1.start
             /\ In(dt, K, p) => d1.end <= p
             /\ In(st, K, p) => s1.end <= p
             /\ InSpan(d1, K, p) <=> (d1.start <= p /\ p < d1.end /\ d1.sub \in K)
             /\ InSpan(s1, K, p) <=> (s1.start <= p /\ p < s1.end /\ s1.sub \in K)
  <2>1. AndHolds(w, K, p) <=> (In(done, K, p) \/ (In(w.d, K, p) /\ In(w.s, K, p)))
    BY <1>2 DEF AndHolds
  <2>2. /\ In(w.d, K, p) <=> (InSpan(d1, K, p) \/ In(dt, K, p))
        /\ In(w.s, K, p) <=> (InSpan(s1, K, p) \/ In(st, K, p))
        /\ In(done, K, p) => p < d1.start
        /\ In(dt, K, p) => d1.end <= p
        /\ In(st, K, p) => s1.end <= p
    BY <1>1, MeansAmid
  <2> QED BY <2>1, <2>2 DEF InSpan
<1>4. CASE d1.start >= s1.end
  <2>1. AndStep(inner, w) = At(done, w.d, st)
    BY <1>2, <1>4, Zenon DEF AndStep
  <2>2. Fits(At(done, w.d, st))
    BY <1>i, <1>f, FitsAt
  <2>3. ASSUME NEW K, NEW p \in Int PROVE AndHolds(At(done, w.d, st), K, p) <=> AndHolds(w, K, p)
    <3>1. AndHolds(At(done, w.d, st), K, p) <=> (In(done, K, p) \/ (In(w.d, K, p) /\ In(st, K, p)))
      BY AndAt
    <3> QED BY <1>i, <1>f, <1>h, <1>4, <3>1
  <2> QED BY <2>1, <2>2, <2>3
<1>5. CASE ~(d1.start >= s1.end) /\ d1.end <= s1.start
  <2>1. AndStep(inner, w) = At(done, dt, w.s)
    BY <1>2, <1>5, Zenon DEF AndStep
  <2>2. Fits(At(done, dt, w.s))
    <3>1. d1.start <= d1.end
      BY <1>i, <1>f
    <3>2. Until(done, d1.end)
      BY <1>t, <1>i, <1>f, <3>1, Later
    <3> QED BY <1>i, <1>f, <3>2, FitsAt
  <2>3. ASSUME NEW K, NEW p \in Int PROVE AndHolds(At(done, dt, w.s), K, p) <=> AndHolds(w, K, p)
    <3>1. AndHolds(At(done, dt, w.s), K, p) <=> (In(done, K, p) \/ (In(dt, K, p) /\ In(w.s, K, p)))
      BY AndAt
    <3> QED BY <1>i, <1>f, <1>h, <1>5, <3>1
  <2> QED BY <2>1, <2>2, <2>3
<1>o. ASSUME ~(d1.start >= s1.end), ~(d1.end <= s1.start)
      PROVE  /\ Overlapping(T, d1, s1) /\ e \in Int /\ d1.start < e /\ s1.start < e /\ e <= d1.end /\ e <= s1.end
             /\ (e = d1.end \/ e = s1.end)
  <2>1. Overlapping(T, d1, s1)
    BY <1>t, <1>i, <1>f, <1>o DEF Overlapping
  <2> QED BY <1>i, <1>f, <1>o, <2>1 DEF Smaller
<1>r. ASSUME ~(d1.start >= s1.end), ~(d1.end <= s1.start)
      PROVE  /\ rest \in ListsOf(T) /\ InOrder(rest) /\ From(rest, e)
             /\ \A K : \A p \in Int : In(rest, K, p) <=> (e <= p /\ In(w.d, K, p))
  <2>1. Overlapping(T, d1, s1)
    BY <1>o, <1>r
  <2>2. rest \in ListsOf(T)
    BY <1>t, RestTypes, Zenon
  <2>3. InOrder(rest) /\ From(rest, e)
    BY <1>t, <1>f, <2>1, RestMeans
  <2>4. ASSUME NEW K, NEW p \in Int PROVE In(rest, K, p) <=> (e <= p /\ (InSpan(d1, K, p) \/ In(dt, K, p)))
    BY <1>t, <1>f, <2>1, RestMeans
  <2> HIDE DEF rest, e
  <2> QED BY <1>h, <2>2, <2>3, <2>4
<1>6. CASE /\ ~(d1.start >= s1.end) /\ ~(d1.end <= s1.start)
           /\ d1.sub # <<>> /\ both.sub = <<>>
  <2>1. AndStep(inner, w) = At(done, rest, w.s)
    BY <1>2, <1>6, Zenon DEF AndStep
  <2>2. inner[d1.sub][s1.sub] = <<>>
    BY <1>6 DEF Shared, Span
  <2>3. /\ e \in Int /\ d1.start < e /\ s1.start < e /\ e <= d1.end /\ e <= s1.end
        /\ InOrder(rest) /\ From(rest, e)
        /\ \A K : \A p \in Int : In(rest, K, p) <=> (e <= p /\ In(w.d, K, p))
    BY <1>6, <1>o, <1>r
  <2> HIDE DEF rest, e, both
  <2>4. Fits(At(done, rest, w.s))
    <3>1. Until(done, e)
      BY <1>t, <1>i, <1>f, <2>3, Later
    <3> QED BY <1>f, <2>3, <3>1, FitsAt
  <2>5. ASSUME NEW K, NEW p \in Int, AndInner(inner, T, K)
        PROVE  AndHolds(At(done, rest, w.s), K, p) <=> AndHolds(w, K, p)
    <3>1. AndHolds(At(done, rest, w.s), K, p) <=> (In(done, K, p) \/ (In(rest, K, p) /\ In(w.s, K, p)))
      BY AndAt
    <3>2. ~(d1.sub \in K /\ s1.sub \in K)
      BY <1>i, <1>6, <2>2, <2>5 DEF AndInner
    <3>3. In(rest, K, p) <=> (e <= p /\ In(w.d, K, p))
      BY <2>3
    <3> QED BY <1>i, <1>h, <2>3, <3>1, <3>2, <3>3
  <2> QED BY <2>1, <2>4, <2>5
<1>7. CASE /\ ~(d1.start >= s1.end) /\ ~(d1.end <= s1.start)
           /\ ~(d1.sub # <<>> /\ both.sub = <<>>)
  <2> DEFINE k == done \o <<both>>
             a == MergePrevious[k]
             s2 == IF s1.end <= both.end THEN st ELSE w.s
  <2>1. AndStep(inner, w) = At(a, rest, s2)
    <3>1. Append(done, both) = k
      BY <1>t, AppendIsConcat DEF ListsOf
    <3> QED BY <1>2, <1>7, <3>1, Zenon DEF AndStep
  <2>2. ~(d1.sub # <<>> /\ inner[d1.sub][s1.sub] = <<>>) /\ inner[d1.sub][s1.sub] \in T
    <3>1. both.sub = inner[d1.sub][s1.sub]
      BY DEF Shared, Span
    <3> QED BY <1>i, <1>7, <3>1 DEF AndClosed
  <2>3. /\ both \in SpanOf(T) /\ both.start = Greater(d1.start, s1.start) /\ both.end = e
        /\ both.sub = inner[d1.sub][s1.sub]
    <3> DEFINE v == inner[d1.sub][s1.sub]
    <3>1. both = Shared(d1, s1, v) /\ v \in T
      BY <2>2
    <3> HIDE DEF v, both, e, rest
    <3>2. d1 \in SpanOf(T) /\ s1 \in SpanOf(T) /\ v \in T
      BY <1>t, <3>1
    <3>3. /\ Shared(d1, s1, v) \in SpanOf(T)
          /\ Shared(d1, s1, v).start = Greater(d1.start, s1.start)
          /\ Shared(d1, s1, v).end = Smaller(d1.end, s1.end)
          /\ Shared(d1, s1, v).sub = v
      BY <3>2, Cut
    <3> QED BY <3>1, <3>3 DEF v, e
  <2>4. /\ e \in Int /\ d1.start < e /\ s1.start < e /\ e <= d1.end /\ e <= s1.end /\ (e = d1.end \/ e = s1.end)
        /\ InOrder(rest) /\ From(rest, e)
        /\ \A K : \A p \in Int : In(rest, K, p) <=> (e <= p /\ In(w.d, K, p))
    BY <1>7, <1>o, <1>r
  <2> HIDE DEF rest, both, e
  <2>5. /\ both.start \in Int /\ both.start < e /\ d1.start <= both.start /\ s1.start <= both.start
        /\ (both.start = d1.start \/ both.start = s1.start)
    BY <1>i, <2>3, <2>4 DEF Greater
  <2>6. k \in ListsOf(T) /\ k # <<>>
    BY <1>t, <2>3, Appended
  <2>7. Until(done, both.start)
    BY <1>t, <1>i, <1>f, <2>5, Later
  <2>8. InOrder(k)
    BY <1>t, <1>f, <2>3, <2>5, <2>7, OrderLast
  <2>9. Until(k, e)
    <3>1. Until(done, e)
      BY <1>t, <1>i, <1>f, <2>4, Later
    <3>2. both.end <= e
      BY <2>3, <2>4
    <3> QED BY <1>t, <2>3, <3>1, <3>2, ListAppend, Zenon
  <2>10. ASSUME NEW K, NEW p \in Int PROVE In(k, K, p) <=> (In(done, K, p) \/ InSpan(both, K, p))
    BY <1>t, <2>3, ListAppend, Zenon
  <2> HIDE DEF k
  <2>11. MergesPrevious(k, a)
    BY <2>6, PreviousMerged, Zenon
  <2> HIDE DEF a
  <2>12. InOrder(a) /\ Until(a, e)
    BY <2>4, <2>8, <2>9, <2>11 DEF MergesPrevious, Merges
  <2>13. ASSUME NEW K, NEW p \in Int PROVE In(a, K, p) <=> In(k, K, p)
    BY <2>8, <2>11 DEF MergesPrevious, Merges
  <2>14. Fits(At(a, rest, s2))
    <3>1. InOrder(s2)
      BY <1>f
    <3> HIDE DEF s2
    <3> QED BY <2>4, <2>12, <3>1, FitsAt
  <2>15. ASSUME NEW K, NEW p \in Int, AndInner(inner, T, K)
         PROVE  AndHolds(At(a, rest, s2), K, p) <=> AndHolds(w, K, p)
    <3>1. In(s2, K, p) /\ e <= p <=> In(w.s, K, p) /\ e <= p
      <4>1. CASE s1.end <= both.end
        <5>1. s2 = st
          BY <4>1
        <5>2. e <= p => ~InSpan(s1, K, p)
          BY <1>h, <1>i, <2>3, <2>4, <4>1
        <5> HIDE DEF s2
        <5> QED BY <1>h, <5>1, <5>2
      <4>2. CASE ~(s1.end <= both.end)
        BY <4>2
      <4> QED BY <4>1, <4>2
    <3> HIDE DEF s2
    <3>2. AndHolds(At(a, rest, s2), K, p) <=> (In(a, K, p) \/ (In(rest, K, p) /\ In(s2, K, p)))
      BY AndAt
    <3>3. both.sub \in K <=> d1.sub \in K /\ s1.sub \in K
      BY <1>i, <2>2, <2>3, <2>15 DEF AndInner
    <3>4. InSpan(both, K, p) <=> p < e /\ InSpan(d1, K, p) /\ InSpan(s1, K, p)
      <4>1. InSpan(both, K, p) <=> both.start <= p /\ p < e /\ both.sub \in K
        BY <2>3 DEF InSpan
      <4> QED BY <1>i, <1>h, <2>4, <2>5, <3>3, <4>1
    <3>5. In(a, K, p) <=> (In(done, K, p) \/ InSpan(both, K, p))
      BY <2>10, <2>13
    <3>6. In(rest, K, p) <=> (e <= p /\ In(w.d, K, p))
      BY <2>4
    <3>7. ~(e <= p) => (In(w.d, K, p) /\ In(w.s, K, p) <=> InSpan(d1, K, p) /\ InSpan(s1, K, p))
      BY <1>i, <1>h, <2>4
    <3>8. e <= p <=> ~(p < e)
      BY <2>4
    <3>9. AndHolds(w, K, p) <=> (In(done, K, p) \/ (In(w.d, K, p) /\ In(w.s, K, p)))
      BY <1>h
    <3> QED BY <3>1, <3>2, <3>4, <3>5, <3>6, <3>7, <3>8, <3>9
  <2> QED BY <2>1, <2>14, <2>15
<1> QED BY <1>4, <1>5, <1>6, <1>7

-----------------------------------------------------------------------------
IsAndWalk(inner, f) ==
    f = [w \in Walk |-> IF w.s = <<>> \/ w.d = <<>> THEN w.done ELSE f[AndStep(inner, w)]]

\* The loop of sraSpanListAnd has a result for every walk.
LEMMA AndWalk ==
  ASSUME NEW inner, AndClosed(inner, HLists)
  PROVE  \E f : /\ IsAndWalk(inner, f)
                /\ AndLists(inner) = [d \in Lists |-> [s \in Lists |-> f[At(<<>>, d, s)]]]
<1> DEFINE E == {w \in Walk : w.s = <<>> \/ w.d = <<>>}
           res == [w \in Walk |-> w.done]
           step == [w \in Walk |-> IF w.s = <<>> \/ w.d = <<>> THEN w ELSE AndStep(inner, w)]
           m == [w \in Walk |-> Size(w)]
<1>1. ASSUME NEW w \in Walk, w.s # <<>>, w.d # <<>>
      PROVE  AndStep(inner, w) \in Walk /\ Size(AndStep(inner, w)) < Size(w)
  BY <1>1, Walks, AndStepShrinks
<1>2. /\ m \in [Walk -> Nat] /\ res \in [Walk -> Lists] /\ step \in [Walk -> Walk] /\ Lists # {}
  <2>1. m \in [Walk -> Nat]
    BY Walks
  <2>2. ASSUME NEW w \in Walk PROVE w.done \in Lists
    BY DEF Walk
  <2>3. step \in [Walk -> Walk]
    BY <1>1
  <2>4. Lists # {}
    BY BothKinds, ListNone
  <2> QED BY <2>1, <2>2, <2>3, <2>4
<1>3. \A w \in Walk : w \notin E => m[step[w]] < m[w]
  BY <1>1, <1>2
<1>4. PICK f \in [Walk -> Lists] : Loops(Walk, E, res, step, f)
  <2> HIDE DEF E, res, step, m
  <2> QED BY <1>2, <1>3, While, Zenon
<1>5. f = [w \in Walk |-> IF w.s = <<>> \/ w.d = <<>> THEN w.done ELSE f[AndStep(inner, w)]]
  BY <1>4 DEF Loops
<1> DEFINE g == CHOOSE g : g = [w \in Walk |-> IF w.s = <<>> \/ w.d = <<>> THEN w.done ELSE g[AndStep(inner, w)]]
<1>6. g = [w \in Walk |-> IF w.s = <<>> \/ w.d = <<>> THEN w.done ELSE g[AndStep(inner, w)]]
  BY <1>5
<1>7. AndLists(inner) = [d \in Lists |-> [s \in Lists |-> g[At(<<>>, d, s)]]]
  BY DEF AndLists
<1> HIDE DEF g
<1>8. IsAndWalk(inner, g)
  BY <1>6 DEF IsAndWalk
<1> QED BY <1>7, <1>8

AndResult(inner, T, w, l) ==
    /\ l \in ListsOf(T)
    /\ Fits(w) => InOrder(l)
    /\ Fits(w) => \A K : \A p \in Int : AndInner(inner, T, K) => (In(l, K, p) <=> AndHolds(w, K, p))

\* It holds what the walk held, in order.
LEMMA AndRun ==
  ASSUME NEW inner, AndClosed(inner, HLists), NEW T \in SUBSET HLists, AndClosed(inner, T),
         NEW f, IsAndWalk(inner, f), NEW w \in WalkOf(T)
  PROVE  AndResult(inner, T, w, f[w])
<1> DEFINE X == WalkOf(T)
           G == {v \in X : AndResult(inner, T, v, f[v])}
           m == [v \in X |-> Size(v)]
<1>1. ASSUME NEW v \in X, \A u \in X : Size(u) < Size(v) => u \in G PROVE AndResult(inner, T, v, f[v])
  <2>1. v \in Walk
    BY Walks
  <2>2. CASE v.s = <<>> \/ v.d = <<>>
    <3> DEFINE l == v.done
    <3>1. f[v] = l
      BY <2>1, <2>2 DEF IsAndWalk
    <3>3. l \in ListsOf(T)
      BY DEF WalkOf
    <3>4. ASSUME Fits(v) PROVE InOrder(l)
      BY <3>4 DEF Fits
    <3>5. ASSUME NEW K, NEW p \in Int PROVE In(l, K, p) <=> AndHolds(v, K, p)
      BY <2>2, ListNone DEF AndHolds
    <3> HIDE DEF l
    <3> QED BY <3>1, <3>3, <3>4, <3>5 DEF AndResult
  <2>3. CASE v.s # <<>> /\ v.d # <<>>
    <3> DEFINE u == AndStep(inner, v)
    <3>1. f[v] = f[u]
      BY <2>1, <2>3 DEF IsAndWalk
    <3>2. u \in X /\ Size(u) < Size(v)
      BY <2>3, AndStepShrinks
    <3>3. AndResult(inner, T, u, f[u])
      BY <1>1, <3>2
    <3>4. Fits(v) => /\ Fits(u)
                     /\ \A K : \A p \in Int : AndInner(inner, T, K) => (AndHolds(u, K, p) <=> AndHolds(v, K, p))
      BY <2>3, AndStepMeans
    <3> HIDE DEF u
    <3> QED BY <3>1, <3>3, <3>4 DEF AndResult
  <2> QED BY <2>2, <2>3
<1>2. X \subseteq G
  <2>1. m \in [X -> Nat]
    BY Walks
  <2>2. \A x \in X : (\A z \in X : m[z] < m[x] => z \in G) => x \in G
    BY <1>1
  <2> HIDE DEF X, G, m
  <2> QED BY <2>1, <2>2, Induction
<1> QED BY <1>2

\* sraSpanListAnd, at either level: what is held in both lists.
LEMMA AndListsMeans ==
  ASSUME NEW inner, AndClosed(inner, HLists), NEW T \in SUBSET HLists, AndClosed(inner, T),
         NEW a \in ListsOf(T), NEW b \in ListsOf(T)
  PROVE  LET l == AndLists(inner)[a][b] IN
         /\ l \in ListsOf(T)
         /\ InOrder(a) /\ InOrder(b) => InOrder(l)
         /\ InOrder(a) /\ InOrder(b) => \A K : \A p \in Int : AndInner(inner, T, K) =>
                (In(l, K, p) <=> (In(a, K, p) /\ In(b, K, p)))
<1> DEFINE w == At(<<>>, a, b)
           l == AndLists(inner)[a][b]
<1>1. PICK f : /\ IsAndWalk(inner, f)
               /\ AndLists(inner) = [d \in Lists |-> [s \in Lists |-> f[At(<<>>, d, s)]]]
  BY AndWalk
<1>2. l = f[w]
  <2>1. a \in Lists /\ b \in Lists
    BY BothKinds
  <2> QED BY <1>1, <2>1
<1>3. w \in WalkOf(T)
  BY ListNone, AtTypes
<1>4. AndResult(inner, T, w, l)
  <2> HIDE DEF w, l
  <2> QED BY <1>1, <1>2, <1>3, AndRun
<1>5. ASSUME InOrder(a), InOrder(b) PROVE Fits(w)
  <2>1. PICK n \in Int : From(a, n)
    BY <1>5, Below
  <2>2. InOrder(<<>>) /\ Until(<<>>, n)
    BY ListNone
  <2> QED BY <1>5, <2>1, <2>2, FitsAt
<1>6. ASSUME NEW K, NEW p PROVE AndHolds(w, K, p) <=> (In(a, K, p) /\ In(b, K, p))
  <2>1. ~In(<<>>, K, p)
    BY ListNone
  <2> QED BY <2>1, AndAt
<1> HIDE DEF w, l
<1> QED BY <1>4, <1>5, <1>6 DEF AndResult, l

-----------------------------------------------------------------------------
\* A merge of a span with the rest of a list, and its lengths.
LEMMA NextRest ==
  ASSUME NEW T \in SUBSET HLists, NEW x, x \in SpanOf(T), NEW rest, rest \in ListsOf(T)
  PROVE  LET r == MergeNext[<<x>> \o rest] IN
         /\ r \in ListsOf(T) /\ Tail(r) \in ListsOf(T) /\ Head(r) \in SpanOf(T)
         /\ Len(r) = Len(Tail(r)) + 1
         /\ Len(r) \in Nat /\ Len(Tail(r)) \in Nat /\ Len(rest) \in Nat
         /\ Len(r) <= Len(rest) + 1
         /\ Head(r).end # x.end => Len(r) < Len(rest) + 1
<1> DEFINE k == <<x>> \o rest
           r == MergeNext[k]
<1>1. k \in ListsOf(T) /\ k # <<>> /\ Head(k) = x /\ Len(k) = Len(rest) + 1 /\ Len(rest) \in Nat
  BY Prepended
<1> HIDE DEF k
<1>2. /\ r \in ListsOf(T) /\ Tail(r) \in ListsOf(T) /\ Head(r) \in SpanOf(T) /\ Len(r) = Len(Tail(r)) + 1
      /\ Len(r) <= Len(k) /\ Len(r) \in Nat /\ Len(Tail(r)) \in Nat
      /\ MergesNext(k, r)
  BY <1>1, NextMerged, Zenon
<1> HIDE DEF r
<1>3. Len(r) = Len(k) => r = k
  BY <1>2 DEF MergesNext
<1>4. Len(r) <= Len(rest) + 1
  BY <1>1, <1>2
<1>5. Head(r).end # x.end => Len(r) < Len(rest) + 1
  <2>1. Head(r).end # x.end => Len(r) # Len(k)
    BY <1>1, <1>3
  <2> DEFINE i == Len(r)
             j == Len(rest)
  <2>2. i \in Nat /\ j \in Nat /\ i <= j + 1 /\ Len(k) = j + 1
    BY <1>1, <1>2, <1>4
  <2> HIDE DEF i, j
  <2>3. i # j + 1 => i < j + 1
    BY <2>2
  <2> QED BY <2>1, <2>2, <2>3 DEF i, j
<1> QED BY <1>1, <1>2, <1>4, <1>5 DEF r, k

SubtractClosed(inner, T) == \A a, b \in T : inner[a][b] = <<>> \/ inner[a][b] \in T

\* What inner must do for Subtract.
SubtractInner(inner, T, K) ==
    \A a, b \in T : IF inner[a][b] = <<>> THEN ~(a \in K /\ b \notin K)
                    ELSE inner[a][b] \in T /\ (inner[a][b] \in K <=> a \in K /\ b \notin K)

\* What the spans of a walk that overlap become, when something is left of both.
SubtractMeet(w, v) ==
    LET s1     == Head(w.s)
        d1     == Head(w.d)
        rest   == After(d1, s1) \o Tail(w.d)
        left   == MergePrevious[Append(w.done \o Before(d1, s1), Shared(d1, s1, v))]
        right  == MergeNext[<<Last(left)>> \o rest]
    IN IF s1.end > Head(right).end
       THEN At(Append(Front(left), Head(right)), Tail(right), w.s)
       ELSE At(Front(left), right, Tail(w.s))

\* The turn of sraSpanListSubtract where something of the overlap is left.
LEMMA SubtractMeets ==
  ASSUME NEW inner, NEW w, NEW d1, NEW s1, Head(w.d) = d1, Head(w.s) = s1,
         ~(d1.start >= s1.end), ~(d1.end <= s1.start), inner[d1.sub][s1.sub] # <<>>
  PROVE  SubtractStep(inner, w) = SubtractMeet(w, inner[d1.sub][s1.sub])
<1> DEFINE v == inner[d1.sub][s1.sub]
<1>1. Shared(d1, s1, v).sub = v
  BY DEF Shared, Span
<1>2. v # <<>>
  OBVIOUS
<1> QED BY <1>1, <1>2, Zenon DEF SubtractStep, SubtractMeet

\* The list up to what is left of the overlap.
LEMMA SubtractMeetTypes ==
  ASSUME NEW T \in SUBSET HLists, NEW w, NEW done, NEW d1, NEW dt, NEW s1, NEW st, IsAmid(T, w, done, d1, dt, s1, st),
         NEW v \in T
  PROVE  LET k == Append(done \o Before(d1, s1), Shared(d1, s1, v))
             left == MergePrevious[k]
         IN /\ k \in ListsOf(T) /\ k # <<>> /\ left \in ListsOf(T) /\ left # <<>> /\ Front(left) \in ListsOf(T)
            /\ Last(left) \in SpanOf(T) /\ MergesPrevious(k, left)
            /\ Last(left).end = Smaller(d1.end, s1.end) /\ Last(left).sub = v
<1>t. done \in ListsOf(T) /\ d1 \in SpanOf(T) /\ dt \in ListsOf(T) /\ s1 \in SpanOf(T) /\ st \in ListsOf(T)
  BY AmidstTypes
<1> DEFINE both == Shared(d1, s1, v)
           before == done \o Before(d1, s1)
           k == Append(before, both)
           left == MergePrevious[k]
<1>1. both \in SpanOf(T) /\ both.end = Smaller(d1.end, s1.end) /\ both.sub = v /\ Before(d1, s1) \in ListsOf(T)
  BY <1>t, Cut
<1> HIDE DEF both
<1>2. before \in ListsOf(T)
  BY <1>t, <1>1, ListJoin
<1> HIDE DEF before
<1>3. k \in ListsOf(T) /\ k # <<>> /\ Last(k) = both
  BY <1>1, <1>2, Appended, Zenon
<1> HIDE DEF k
<1>4. /\ left \in ListsOf(T) /\ left # <<>> /\ Front(left) \in ListsOf(T) /\ Last(left) \in SpanOf(T)
      /\ MergesPrevious(k, left)
  BY <1>3, PreviousMerged, Zenon
<1> HIDE DEF left
<1>5. Last(left).end = both.end /\ Last(left).sub = both.sub
  BY <1>3, <1>4 DEF MergesPrevious
<1> QED BY <1>1, <1>3, <1>4, <1>5 DEF left, k, before, both

\* Such a turn makes the walk shorter.
LEMMA SubtractMeetShrinks ==
  ASSUME NEW T \in SUBSET HLists, NEW w, NEW done, NEW d1, NEW dt, NEW s1, NEW st, IsAmid(T, w, done, d1, dt, s1, st),
         NEW v \in T
  PROVE  SubtractMeet(w, v) \in WalkOf(T) /\ Size(SubtractMeet(w, v)) < Size(w)
<1>0. w \in WalkOf(T) /\ Len(w.d) = Len(dt) + 1 /\ Len(w.s) = Len(st) + 1 /\ Len(dt) \in Nat /\ Len(st) \in Nat
  BY AmidstParts, Zenon
<1>1. w.done = done /\ Head(w.d) = d1 /\ Tail(w.d) = dt /\ Head(w.s) = s1 /\ Tail(w.s) = st /\ w.s \in ListsOf(T)
  BY AmidstParts, Zenon
<1>t. done \in ListsOf(T) /\ d1 \in SpanOf(T) /\ dt \in ListsOf(T) /\ s1 \in SpanOf(T) /\ st \in ListsOf(T)
  BY AmidstTypes
<1>i. d1.end \in Int /\ s1.end \in Int
  BY AmidstTypes
<1> DEFINE rest == After(d1, s1) \o dt
           left == MergePrevious[Append(done \o Before(d1, s1), Shared(d1, s1, v))]
           x == Last(left)
           g == Front(left)
           r == MergeNext[<<x>> \o rest]
<1>2. SubtractMeet(w, v) = IF s1.end > Head(r).end THEN At(Append(g, Head(r)), Tail(r), w.s) ELSE At(g, r, st)
  BY <1>1, Zenon DEF SubtractMeet
<1>3. g \in ListsOf(T) /\ x \in SpanOf(T) /\ x.end = Smaller(d1.end, s1.end)
  BY SubtractMeetTypes
<1> HIDE DEF left, g, x
<1>4. rest \in ListsOf(T) /\ Len(rest) \in Nat /\ Len(rest) <= Len(dt) + 1 /\ (d1.end <= s1.end => rest = dt)
  <2>1. d1 \in SpanOf(T) /\ s1 \in SpanOf(T) /\ dt \in ListsOf(T)
    BY <1>t
  <2>2. rest \in ListsOf(T) /\ Len(rest) \in Nat /\ Len(rest) <= Len(dt) + 1
    BY <2>1, RestTypes, Zenon
  <2>3. ASSUME d1.end <= s1.end PROVE rest = dt
    <3>1. After(d1, s1) = <<>>
      BY <1>i, <2>3 DEF After
    <3> QED BY <2>1, <3>1, ConcatEmptySeq DEF ListsOf
  <2> QED BY <2>2, <2>3
<1> HIDE DEF rest
<1>5. /\ r \in ListsOf(T) /\ Tail(r) \in ListsOf(T) /\ Head(r) \in SpanOf(T)
      /\ Len(r) = Len(Tail(r)) + 1 /\ Len(r) \in Nat /\ Len(Tail(r)) \in Nat
      /\ Len(r) <= Len(rest) + 1
      /\ Head(r).end # x.end => Len(r) < Len(rest) + 1
  BY <1>3, <1>4, NextRest
<1> HIDE DEF r
<1> DEFINE nd == Len(w.d)
           nr == Len(r)
           nt == Len(dt)
           ne == Len(rest)
<1>m. /\ nd = nt + 1 /\ nt \in Nat /\ nr \in Nat /\ ne \in Nat /\ nr <= ne + 1 /\ ne <= nt + 1
      /\ Len(Tail(r)) = nr - 1
  BY <1>0, <1>4, <1>5
<1>6. CASE ~(s1.end > Head(r).end)
  <2>1. Len(r) <= Len(w.d) + 1 /\ Len(st) < Len(w.s)
    <3> HIDE DEF nr, nd, nt, ne
    <3>1. nr <= nd + 1
      BY <1>m
    <3> QED BY <1>0, <3>1 DEF nr, nd
  <2>2. SubtractMeet(w, v) = At(g, r, st)
    BY <1>2, <1>6
  <2> QED BY <1>0, <1>t, <1>3, <1>5, <2>1, <2>2, AtShrinks, Zenon
<1>7. CASE s1.end > Head(r).end
  <2>1. Append(g, Head(r)) \in ListsOf(T)
    BY <1>3, <1>5, Appended, Zenon
  <2>2. Len(Tail(r)) < Len(w.d)
    <3>1. CASE d1.end <= s1.end
      <4>1. ne = nt
        BY <1>4, <3>1
      <4> HIDE DEF nr, nd, nt, ne
      <4>2. nr - 1 < nd
        BY <1>m, <4>1
      <4> QED BY <1>m, <4>2 DEF nd
    <3>2. CASE s1.end < d1.end
      <4>1. x.end = s1.end
        BY <1>i, <1>3, <3>2 DEF Smaller
      <4>2. Head(r).end # x.end
        <5>1. Head(r).end \in Int
          BY <1>5, SpanTypes
        <5> QED BY <1>i, <1>7, <4>1, <5>1
      <4>3. nr < ne + 1
        BY <1>5, <4>2
      <4> HIDE DEF nr, nd, nt, ne
      <4>4. nr - 1 < nd
        BY <1>m, <4>3
      <4> QED BY <1>m, <4>4 DEF nd
    <3> QED BY <1>i, <3>1, <3>2
  <2>3. SubtractMeet(w, v) = At(Append(g, Head(r)), Tail(r), w.s)
    BY <1>2, <1>7
  <2>4. Len(w.s) = Len(w.s)
    OBVIOUS
  <2> QED BY <1>0, <1>1, <1>5, <2>1, <2>2, <2>3, <2>4, AtShrinks, Zenon
<1> QED BY <1>6, <1>7

\* Every turn of sraSpanListSubtract makes the walk shorter.
LEMMA SubtractStepShrinks ==
  ASSUME NEW T \in SUBSET HLists, NEW inner, SubtractClosed(inner, T), NEW w, w \in WalkOf(T), w.d # <<>>, w.s # <<>>
  PROVE  SubtractStep(inner, w) \in WalkOf(T) /\ Size(SubtractStep(inner, w)) < Size(w)
<1>1. PICK done, d1, dt, s1, st : IsAmid(T, w, done, d1, dt, s1, st)
  BY Amidst
<1> DEFINE v == inner[d1.sub][s1.sub]
<1>i. d1.start \in Int /\ d1.end \in Int /\ d1.sub \in T /\ s1.start \in Int /\ s1.end \in Int /\ s1.sub \in T
  BY <1>1, AmidstTypes
<1>2. /\ w.done = done /\ Head(w.d) = d1 /\ Tail(w.d) = dt /\ Head(w.s) = s1 /\ Tail(w.s) = st
  BY <1>1, AmidstParts, Zenon
<1>3. /\ w.s \in ListsOf(T) /\ w.d \in ListsOf(T) /\ Len(w.d) = Len(dt) + 1 /\ Len(w.s) = Len(st) + 1
      /\ Len(dt) \in Nat /\ Len(st) \in Nat
  BY <1>1, AmidstParts, Zenon
<1>t. done \in ListsOf(T) /\ d1 \in SpanOf(T) /\ dt \in ListsOf(T) /\ s1 \in SpanOf(T) /\ st \in ListsOf(T)
  BY <1>1, AmidstTypes
<1>v. v = <<>> \/ v \in T
  BY <1>i DEF SubtractClosed
<1> HIDE DEF v
<1>4. CASE d1.start >= s1.end
  <2>1. Len(w.d) <= Len(w.d) + 1 /\ Len(st) < Len(w.s)
    BY <1>3
  <2>2. SubtractStep(inner, w) = At(done, w.d, st)
    BY <1>2, <1>4, Zenon DEF SubtractStep
  <2> QED BY <1>t, <1>3, <2>1, <2>2, AtShrinks
<1>5. CASE ~(d1.start >= s1.end) /\ d1.end <= s1.start
  <2>1. Len(dt) < Len(w.d) /\ Len(w.s) = Len(w.s)
    BY <1>3
  <2>2. Append(done, d1) \in ListsOf(T)
    BY <1>t, Appended, Zenon
  <2>3. SubtractStep(inner, w) = At(Append(done, d1), dt, w.s)
    BY <1>2, <1>5, Zenon DEF SubtractStep
  <2> QED BY <1>t, <1>3, <2>1, <2>2, <2>3, AtShrinks
<1>6. CASE ~(d1.start >= s1.end) /\ ~(d1.end <= s1.start) /\ v = <<>>
  <2>1. done \o Before(d1, s1) \in ListsOf(T)
    <3>1. Before(d1, s1) \in ListsOf(T)
      BY <1>t, <1>i, Cut
    <3> QED BY <1>t, <3>1, ListJoin
  <2>2. SubtractStep(inner, w) = At(done \o Before(d1, s1), After(d1, s1) \o dt, w.s)
    <3>1. Shared(d1, s1, v).sub = v
      BY DEF Shared, Span
    <3> QED BY <1>2, <1>6, <3>1, Zenon DEF SubtractStep, v
  <2> QED BY <1>1, <1>6, <2>1, <2>2, RestShrinks
<1>7. CASE ~(d1.start >= s1.end) /\ ~(d1.end <= s1.start) /\ v # <<>>
  <2>1. SubtractStep(inner, w) = SubtractMeet(w, v) /\ v \in T
    BY <1>2, <1>v, <1>7, SubtractMeets DEF v
  <2> QED BY <1>1, <2>1, SubtractMeetShrinks
<1> QED BY <1>4, <1>5, <1>6, <1>7

SubtractHolds(w, K, p) == In(w.done, K, p) \/ (In(w.d, K, p) /\ ~In(w.s, K, p))

\* What a walk of sraSpanListSubtract holds, by its parts.
LEMMA SubtractAt ==
  ASSUME NEW done, NEW d, NEW s
  PROVE  \A K, p : SubtractHolds(At(done, d, s), K, p) <=> (In(done, K, p) \/ (In(d, K, p) /\ ~In(s, K, p)))
<1>1. At(done, d, s).done = done /\ At(done, d, s).d = d /\ At(done, d, s).s = s
  BY DEF At
<1> QED BY <1>1 DEF SubtractHolds

\* What is left of the destination up to the end e of what the first spans share.
LEMMA SubtractLeft ==
  ASSUME NEW T \in SUBSET HLists, NEW w, NEW done, NEW d1, NEW dt, NEW s1, NEW st,
         IsAmid(T, w, done, d1, dt, s1, st), Fits(w), Overlapping(T, d1, s1), NEW v, v \in T
  PROVE  LET k == Append(done \o Before(d1, s1), Shared(d1, s1, v))
             l == MergePrevious[k]
             m == Greater(d1.start, s1.start)
             e == Smaller(d1.end, s1.end)
         IN /\ l \in ListsOf(T) /\ l # <<>> /\ InOrder(l) /\ Last(l).start < e
            /\ Last(l).end = e /\ Last(l).sub = v
            /\ \A K : \A p \in Int : In(l, K, p) <=> (\/ In(done, K, p) \/ (InSpan(d1, K, p) /\ p < m)
                                                      \/ (m <= p /\ p < e /\ v \in K))
<1> DEFINE b == done \o Before(d1, s1)
           x == Shared(d1, s1, v)
           k == Append(b, x)
           l == MergePrevious[k]
           m == Greater(d1.start, s1.start)
           e == Smaller(d1.end, s1.end)
<1>1. /\ d1 \in SpanOf(T) /\ s1 \in SpanOf(T)
      /\ d1.start \in Int /\ d1.end \in Int /\ d1.sub \in T
      /\ s1.start \in Int /\ s1.end \in Int /\ s1.sub \in T
      /\ d1.start < d1.end /\ s1.start < s1.end /\ d1.start < s1.end /\ s1.start < d1.end
  BY OverlapTypes
<1>t. done \in ListsOf(T)
  BY AmidstTypes
<1>f. InOrder(done) /\ Until(done, d1.start)
  BY FitsAmid
<1>2. /\ b \in ListsOf(T) /\ InOrder(b) /\ Until(b, m)
      /\ \A K : \A p \in Int : In(b, K, p) <=> (In(done, K, p) \/ (InSpan(d1, K, p) /\ p < m))
  BY <1>t, <1>f, BeforeMeans
<1> HIDE DEF b
<1>3. x \in SpanOf(T) /\ x.start = m /\ x.end = e /\ x.sub = v
  BY <1>1, Cut
<1>4. m \in Int /\ e \in Int /\ m < e
  BY <1>1 DEF Smaller, Greater
<1> HIDE DEF x, m, e
<1>5. k \in ListsOf(T) /\ k # <<>> /\ k = b \o <<x>> /\ Last(k) = x
  BY <1>2, <1>3, Appended
<1>6. InOrder(k)
  BY <1>2, <1>3, <1>4, <1>5, OrderLast
<1>7. ASSUME NEW K, NEW p \in Int PROVE In(k, K, p) <=> (In(b, K, p) \/ InSpan(x, K, p))
  <2>1. b \in ListsOf(T) /\ x \in SpanOf(T) /\ k = b \o <<x>>
    BY <1>2, <1>3, <1>5
  <2> HIDE DEF k, l
  <2> QED BY <2>1, ListAppend, Zenon
<1> HIDE DEF k
<1>8. l \in ListsOf(T) /\ l # <<>> /\ Last(l) \in SpanOf(T) /\ MergesPrevious(k, l)
  BY <1>5, PreviousMerged, Zenon
<1> HIDE DEF l
<1>9. InOrder(l) /\ Last(l).start <= m /\ Last(l).end = e /\ Last(l).sub = v
  BY <1>3, <1>5, <1>6, <1>8 DEF MergesPrevious, Merges
<1>10. Last(l).start < e
  <2>1. Last(l).start \in Int
    BY <1>8, SpanTypes
  <2> QED BY <1>4, <1>9, <2>1
<1>11. ASSUME NEW K, NEW p \in Int
       PROVE  In(l, K, p) <=> (\/ In(done, K, p) \/ (InSpan(d1, K, p) /\ p < m)
                               \/ (m <= p /\ p < e /\ v \in K))
  <2>1. In(l, K, p) <=> In(k, K, p)
    BY <1>6, <1>8 DEF MergesPrevious, Merges
  <2>2. InSpan(x, K, p) <=> m <= p /\ p < e /\ v \in K
    BY <1>3 DEF InSpan
  <2> QED BY <1>2, <1>7, <2>1, <2>2
<1> QED BY <1>8, <1>9, <1>10, <1>11 DEF l, k, b, x, m, e

\* A value that inner may give for a and b.
Left(v, a, b, K) == v \in K <=> a \in K /\ b \notin K

\* Where something of the overlap is left a turn keeps what the walk holds.
LEMMA SubtractMeetMeans ==
  ASSUME NEW T \in SUBSET HLists, NEW w, NEW done, NEW d1, NEW dt, NEW s1, NEW st,
         IsAmid(T, w, done, d1, dt, s1, st), Fits(w), Overlapping(T, d1, s1), NEW v, v \in T
  PROVE  /\ Fits(SubtractMeet(w, v))
         /\ \A K : \A p \in Int : Left(v, d1.sub, s1.sub, K) =>
               (SubtractHolds(SubtractMeet(w, v), K, p) <=> SubtractHolds(w, K, p))
<1> DEFINE m == Greater(d1.start, s1.start)
           e == Smaller(d1.end, s1.end)
           l == MergePrevious[Append(done \o Before(d1, s1), Shared(d1, s1, v))]
           rest == After(d1, s1) \o dt
           x == Last(l)
           g == Front(l)
           r == MergeNext[<<x>> \o rest]
           h == Head(r)
           t == Tail(r)
<1>p. /\ w.done = done /\ Head(w.d) = d1 /\ Tail(w.d) = dt /\ Head(w.s) = s1 /\ Tail(w.s) = st
  BY AmidstParts, Zenon
<1>t. st \in ListsOf(T) /\ dt \in ListsOf(T)
  BY AmidstTypes
<1>1. /\ d1 \in SpanOf(T) /\ s1 \in SpanOf(T)
      /\ d1.start \in Int /\ d1.end \in Int /\ d1.sub \in T
      /\ s1.start \in Int /\ s1.end \in Int /\ s1.sub \in T
      /\ d1.start < d1.end /\ s1.start < s1.end /\ d1.start < s1.end /\ s1.start < d1.end
  BY OverlapTypes
<1>f. InOrder(st) /\ InOrder(w.s) /\ InOrder(dt) /\ From(dt, d1.end)
  BY FitsAmid
<1>2. SubtractMeet(w, v) = IF s1.end > h.end THEN At(Append(g, h), t, w.s) ELSE At(g, r, st)
  BY <1>p, Zenon DEF SubtractMeet
<1>3. /\ l \in ListsOf(T) /\ l # <<>> /\ InOrder(l) /\ x.start < e /\ x.end = e /\ x.sub = v
  BY SubtractLeft
<1>4. \A K : \A p \in Int : In(l, K, p) <=> (\/ In(done, K, p) \/ (InSpan(d1, K, p) /\ p < m)
                                             \/ (m <= p /\ p < e /\ v \in K))
  BY SubtractLeft, Zenon
<1> HIDE DEF l
<1>5. rest \in ListsOf(T)
  BY <1>1, <1>t, RestTypes, Zenon
<1>6. InOrder(rest) /\ From(rest, e)
  BY <1>t, <1>f, RestMeans
<1>7. ASSUME NEW K, NEW p \in Int PROVE In(rest, K, p) <=> (e <= p /\ (InSpan(d1, K, p) \/ In(dt, K, p)))
  BY <1>t, <1>f, RestMeans
<1> HIDE DEF rest
<1>8. x \in SpanOf(T) /\ g \in ListsOf(T)
  BY <1>3, ListLast, Zenon
<1>9. InOrder(g) /\ Until(g, x.start)
  BY <1>3, LastMeans
<1>10. ASSUME NEW K, NEW p \in Int PROVE In(l, K, p) <=> (In(g, K, p) \/ InSpan(x, K, p))
  BY <1>3, LastMeans
<1> HIDE DEF x, g
<1>11. /\ r \in ListsOf(T) /\ h \in SpanOf(T) /\ t \in ListsOf(T)
       /\ InOrder(r) /\ InOrder(t) /\ From(t, h.end) /\ From(r, x.start)
       /\ h.start = x.start /\ h.sub = x.sub /\ h.start < h.end /\ x.end <= h.end
  BY <1>3, <1>5, <1>6, <1>8, NextMeans
<1>q. /\ \A K : \A p \in Int : In(r, K, p) <=> (InSpan(x, K, p) \/ In(rest, K, p))
      /\ \A K : \A p \in Int : In(r, K, p) <=> (InSpan(h, K, p) \/ In(t, K, p))
  <2>1. /\ x \in SpanOf(T) /\ x.start < x.end /\ rest \in ListsOf(T) /\ InOrder(rest) /\ From(rest, x.end)
    BY <1>3, <1>5, <1>6, <1>8
  <2> HIDE DEF h, t
  <2>2. \A K : \A p \in Int : In(r, K, p) <=> (InSpan(x, K, p) \/ In(rest, K, p))
    BY <2>1, NextMeans
  <2>3. \A K : \A p \in Int : In(r, K, p) <=> (InSpan(h, K, p) \/ In(t, K, p))
    BY <2>1, NextMeans DEF h, t
  <2> QED BY <2>2, <2>3
<1> HIDE DEF r, h, t
<1>12. /\ x.start \in Int /\ h.end \in Int /\ e \in Int /\ m \in Int
       /\ e <= d1.end /\ e <= s1.end /\ s1.start < e /\ d1.start < e /\ (e = d1.end \/ e = s1.end)
       /\ d1.start <= m /\ s1.start <= m /\ m < e /\ (m = d1.start \/ m = s1.start)
  <2>1. x.start \in Int /\ h.end \in Int
    BY <1>8, <1>11, SpanTypes
  <2> QED BY <1>1, <2>1 DEF Smaller, Greater
<1> HIDE DEF e, m
<1>13. e <= h.end
  BY <1>3, <1>11
\* What the walk holds up to e, and from there to the end of the merged span.
<1>14. ASSUME NEW K, NEW p \in Int
       PROVE  /\ SubtractHolds(w, K, p) <=> (In(done, K, p) \/ (In(w.d, K, p) /\ ~In(w.s, K, p)))
              /\ In(w.d, K, p) <=> (InSpan(d1, K, p) \/ In(dt, K, p))
              /\ In(w.s, K, p) <=> (InSpan(s1, K, p) \/ In(st, K, p))
              /\ In(done, K, p) => p < d1.start
              /\ In(dt, K, p) => d1.end <= p
              /\ In(st, K, p) => s1.end <= p
              /\ InSpan(d1, K, p) <=> (d1.start <= p /\ p < d1.end /\ d1.sub \in K)
              /\ InSpan(s1, K, p) <=> (s1.start <= p /\ p < s1.end /\ s1.sub \in K)
  <2>1. SubtractHolds(w, K, p) <=> (In(done, K, p) \/ (In(w.d, K, p) /\ ~In(w.s, K, p)))
    BY <1>p DEF SubtractHolds
  <2>2. /\ In(w.d, K, p) <=> (InSpan(d1, K, p) \/ In(dt, K, p))
        /\ In(w.s, K, p) <=> (InSpan(s1, K, p) \/ In(st, K, p))
        /\ In(done, K, p) => p < d1.start
        /\ In(dt, K, p) => d1.end <= p
        /\ In(st, K, p) => s1.end <= p
    BY MeansAmid
  <2> QED BY <2>1, <2>2 DEF InSpan
<1>15. ASSUME NEW K, NEW p \in Int, Left(v, d1.sub, s1.sub, K), p < e
       PROVE  SubtractHolds(w, K, p) <=> (In(g, K, p) \/ In(r, K, p))
  <2>1. SubtractHolds(w, K, p) <=> In(l, K, p)
    <3>1. v \in K <=> d1.sub \in K /\ s1.sub \notin K
      BY <1>15 DEF Left
    <3>2. In(l, K, p) <=> (\/ In(done, K, p) \/ (InSpan(d1, K, p) /\ p < m)
                           \/ (m <= p /\ p < e /\ v \in K))
      BY <1>4
    <3>3. In(w.d, K, p) /\ ~In(w.s, K, p) <=> InSpan(d1, K, p) /\ ~InSpan(s1, K, p)
      BY <1>1, <1>12, <1>14, <1>15
    <3>4. CASE p < m
      BY <1>1, <1>12, <1>14, <3>2, <3>3, <3>4
    <3>5. CASE m <= p
      BY <1>1, <1>12, <1>14, <1>15, <3>1, <3>2, <3>3, <3>5
    <3> QED BY <1>12, <3>4, <3>5
  <2>2. ~In(rest, K, p)
    BY <1>7, <1>12, <1>15
  <2> QED BY <1>10, <1>q, <2>1, <2>2
<1>16. ASSUME NEW K, NEW p \in Int, e <= p
       PROVE  /\ SubtractHolds(w, K, p) <=> In(r, K, p) /\ ~In(w.s, K, p)
              /\ ~In(g, K, p)
  <2>1. ~In(g, K, p)
    <3>1. x.start <= p
      BY <1>3, <1>12, <1>16
    <3> QED BY <1>8, <1>9, <1>12, <3>1, Outside
  <2>2. ~In(done, K, p)
    BY <1>1, <1>12, <1>14, <1>16
  <2>3. ~InSpan(x, K, p)
    BY <1>3, <1>12, <1>16 DEF InSpan
  <2>4. In(rest, K, p) <=> In(w.d, K, p)
    BY <1>7, <1>14, <1>16
  <2>5. In(r, K, p) <=> (InSpan(x, K, p) \/ In(rest, K, p))
    BY <1>q
  <2> QED BY <1>14, <2>1, <2>2, <2>3, <2>4, <2>5
<1>17. ASSUME NEW K, NEW p \in Int, Left(v, d1.sub, s1.sub, K), e <= p, p < h.end, InSpan(s1, K, p)
       PROVE  ~In(r, K, p)
  <2>1. s1.sub \in K
    BY <1>14, <1>17
  <2>2. v \notin K
    BY <1>17, <2>1 DEF Left
  <2>3. ~InSpan(h, K, p)
    BY <1>3, <1>11, <2>2 DEF InSpan
  <2>4. ~In(t, K, p)
    BY <1>11, <1>12, <1>17, Outside
  <2> QED BY <1>q, <2>3, <2>4
<1>18. CASE ~(s1.end > h.end)
  <2>1. SubtractMeet(w, v) = At(g, r, st)
    BY <1>2, <1>18
  <2>2. Fits(At(g, r, st))
    BY <1>f, <1>9, <1>11, <1>12, FitsAt
  <2>3. ASSUME NEW K, NEW p \in Int, Left(v, d1.sub, s1.sub, K)
        PROVE  SubtractHolds(At(g, r, st), K, p) <=> SubtractHolds(w, K, p)
    <3>1. SubtractHolds(At(g, r, st), K, p) <=> (In(g, K, p) \/ (In(r, K, p) /\ ~In(st, K, p)))
      BY SubtractAt
    <3>2. CASE p < e
      <4>1. ~In(st, K, p)
        BY <1>1, <1>12, <1>14, <3>2
      <4> QED BY <1>15, <2>3, <3>1, <3>2, <4>1
    <3>3. CASE e <= p
      <4>1. InSpan(s1, K, p) => p < h.end
        BY <1>1, <1>12, <1>14, <1>18
      <4>2. InSpan(s1, K, p) => ~In(r, K, p)
        BY <1>17, <2>3, <3>3, <4>1
      <4> QED BY <1>14, <1>16, <3>1, <3>3, <4>2
    <3> QED BY <1>12, <3>2, <3>3
  <2> QED BY <2>1, <2>2, <2>3
<1>19. CASE s1.end > h.end
  <2> DEFINE a == g \o <<h>>
  <2>1. SubtractMeet(w, v) = At(a, t, w.s)
    <3>1. Append(g, h) = a
      BY <1>8, <1>11, Appended
    <3> QED BY <1>2, <1>19, <3>1
  <2>2. InOrder(a) /\ Until(a, h.end)
    <3>1. InOrder(a)
      BY <1>8, <1>9, <1>11, OrderLast
    <3>2. Until(g, h.end)
      <4>1. x.start <= h.end
        BY <1>3, <1>12, <1>13
      <4> QED BY <1>8, <1>9, <1>12, <4>1, Later
    <3>3. h.end <= h.end
      BY <1>12
    <3> QED BY <1>8, <1>11, <3>1, <3>2, <3>3, ListAppend, Zenon
  <2>3. ASSUME NEW K, NEW p \in Int PROVE In(a, K, p) <=> (In(g, K, p) \/ InSpan(h, K, p))
    BY <1>8, <1>11, ListAppend, Zenon
  <2> HIDE DEF a
  <2>4. Fits(At(a, t, w.s))
    BY <1>f, <1>11, <1>12, <2>2, FitsAt
  <2>5. ASSUME NEW K, NEW p \in Int, Left(v, d1.sub, s1.sub, K)
        PROVE  SubtractHolds(At(a, t, w.s), K, p) <=> SubtractHolds(w, K, p)
    <3>1. SubtractHolds(At(a, t, w.s), K, p) <=> (In(a, K, p) \/ (In(t, K, p) /\ ~In(w.s, K, p)))
      BY SubtractAt
    <3>2. In(r, K, p) <=> (InSpan(h, K, p) \/ In(t, K, p))
      BY <1>q
    <3>3. In(t, K, p) => h.end <= p
      <4>1. p < h.end => ~In(t, K, p)
        BY <1>11, <1>12, Outside
      <4> QED BY <1>12, <4>1
    <3>4. InSpan(h, K, p) => p < h.end
      BY DEF InSpan
    <3>5. CASE p < e
      <4>1. ~In(t, K, p)
        BY <1>12, <1>13, <3>3, <3>5
      <4> QED BY <1>15, <2>3, <2>5, <3>1, <3>2, <3>5, <4>1
    <3>6. CASE e <= p /\ p < h.end
      <4>1. ~In(t, K, p)
        BY <1>12, <3>3, <3>6
      <4>2. In(w.s, K, p) <=> InSpan(s1, K, p)
        BY <1>1, <1>12, <1>14, <1>19, <3>6
      <4>3. InSpan(s1, K, p) => ~In(r, K, p)
        BY <1>17, <2>5, <3>6
      <4> QED BY <1>16, <2>3, <3>1, <3>2, <3>6, <4>1, <4>2, <4>3
    <3>7. CASE h.end <= p
      <4>1. ~InSpan(h, K, p) /\ e <= p
        BY <1>12, <1>13, <3>4, <3>7
      <4> QED BY <1>16, <2>3, <3>1, <3>2, <4>1
    <3> QED BY <1>12, <3>5, <3>6, <3>7
  <2> QED BY <2>1, <2>4, <2>5
<1> QED BY <1>18, <1>19

\* Every turn of sraSpanListSubtract keeps the order and what the walk holds.
LEMMA SubtractStepMeans ==
  ASSUME NEW T \in SUBSET HLists, NEW inner, SubtractClosed(inner, T),
         NEW w, w \in WalkOf(T), w.d # <<>>, w.s # <<>>, Fits(w)
  PROVE  /\ Fits(SubtractStep(inner, w))
         /\ \A K : \A p \in Int : SubtractInner(inner, T, K) =>
               (SubtractHolds(SubtractStep(inner, w), K, p) <=> SubtractHolds(w, K, p))
<1>1. PICK done, d1, dt, s1, st : IsAmid(T, w, done, d1, dt, s1, st)
  BY Amidst
<1> DEFINE v == inner[d1.sub][s1.sub]
           e == Smaller(d1.end, s1.end)
           m == Greater(d1.start, s1.start)
<1>2. /\ w.done = done /\ Head(w.d) = d1 /\ Tail(w.d) = dt /\ Head(w.s) = s1 /\ Tail(w.s) = st
  BY <1>1, AmidstParts, Zenon
<1>3. w.s \in ListsOf(T) /\ w.d \in ListsOf(T)
  BY <1>1, AmidstParts, Zenon
<1>t. done \in ListsOf(T) /\ d1 \in SpanOf(T) /\ dt \in ListsOf(T) /\ s1 \in SpanOf(T) /\ st \in ListsOf(T)
  BY <1>1, AmidstTypes
<1>i. d1.start \in Int /\ d1.end \in Int /\ d1.sub \in T /\ s1.start \in Int /\ s1.end \in Int /\ s1.sub \in T
  BY <1>1, AmidstTypes
<1>f. /\ InOrder(done) /\ InOrder(dt) /\ InOrder(st) /\ InOrder(w.d) /\ InOrder(w.s)
      /\ d1.start < d1.end /\ From(dt, d1.end)
      /\ s1.start < s1.end /\ From(st, s1.end)
      /\ Until(done, d1.start) /\ From(w.d, d1.start)
  BY <1>1, FitsAmid
<1>v. v = <<>> \/ v \in T
  BY <1>i DEF SubtractClosed
<1>k. ASSUME NEW K, SubtractInner(inner, T, K)
      PROVE  IF v = <<>> THEN ~(d1.sub \in K /\ s1.sub \notin K) ELSE Left(v, d1.sub, s1.sub, K)
  BY <1>i, <1>k DEF SubtractInner, Left
<1> HIDE DEF v
<1>h. ASSUME NEW K, NEW p \in Int
      PROVE  /\ SubtractHolds(w, K, p) <=> (In(done, K, p) \/ (In(w.d, K, p) /\ ~In(w.s, K, p)))
             /\ In(w.d, K, p) <=> (InSpan(d1, K, p) \/ In(dt, K, p))
             /\ In(w.s, K, p) <=> (InSpan(s1, K, p) \/ In(st, K, p))
             /\ In(done, K, p) => p < d1.start
             /\ In(dt, K, p) => d1.end <= p
             /\ In(st, K, p) => s1.end <= p
             /\ InSpan(d1, K, p) <=> (d1.start <= p /\ p < d1.end /\ d1.sub \in K)
             /\ InSpan(s1, K, p) <=> (s1.start <= p /\ p < s1.end /\ s1.sub \in K)
  <2>1. SubtractHolds(w, K, p) <=> (In(done, K, p) \/ (In(w.d, K, p) /\ ~In(w.s, K, p)))
    BY <1>2 DEF SubtractHolds
  <2>2. /\ In(w.d, K, p) <=> (InSpan(d1, K, p) \/ In(dt, K, p))
        /\ In(w.s, K, p) <=> (InSpan(s1, K, p) \/ In(st, K, p))
        /\ In(done, K, p) => p < d1.start
        /\ In(dt, K, p) => d1.end <= p
        /\ In(st, K, p) => s1.end <= p
    BY <1>1, MeansAmid
  <2> QED BY <2>1, <2>2 DEF InSpan
<1>4. CASE d1.start >= s1.end
  <2>1. SubtractStep(inner, w) = At(done, w.d, st)
    BY <1>2, <1>4, Zenon DEF SubtractStep
  <2>2. Fits(At(done, w.d, st))
    BY <1>i, <1>f, FitsAt
  <2>3. ASSUME NEW K, NEW p \in Int PROVE SubtractHolds(At(done, w.d, st), K, p) <=> SubtractHolds(w, K, p)
    <3>1. SubtractHolds(At(done, w.d, st), K, p) <=> (In(done, K, p) \/ (In(w.d, K, p) /\ ~In(st, K, p)))
      BY SubtractAt
    <3> QED BY <1>i, <1>f, <1>h, <1>4, <3>1
  <2> QED BY <2>1, <2>2, <2>3
<1>5. CASE ~(d1.start >= s1.end) /\ d1.end <= s1.start
  <2> DEFINE a == done \o <<d1>>
  <2>1. SubtractStep(inner, w) = At(a, dt, w.s)
    <3>1. Append(done, d1) = a
      BY <1>t, Appended
    <3> QED BY <1>2, <1>5, <3>1, Zenon DEF SubtractStep
  <2>2. Fits(At(a, dt, w.s))
    <3>1. InOrder(a)
      BY <1>t, <1>f, OrderLast
    <3>2. Until(a, d1.end)
      <4>1. d1.start <= d1.end /\ d1.end <= d1.end
        BY <1>i, <1>f
      <4>2. Until(done, d1.end)
        BY <1>t, <1>i, <1>f, <4>1, Later
      <4> QED BY <1>t, <4>1, <4>2, ListAppend, Zenon
    <3> HIDE DEF a
    <3> QED BY <1>i, <1>f, <3>1, <3>2, FitsAt
  <2>3. ASSUME NEW K, NEW p \in Int PROVE In(a, K, p) <=> (In(done, K, p) \/ InSpan(d1, K, p))
    BY <1>t, ListAppend, Zenon
  <2> HIDE DEF a
  <2>4. ASSUME NEW K, NEW p \in Int PROVE SubtractHolds(At(a, dt, w.s), K, p) <=> SubtractHolds(w, K, p)
    <3>1. SubtractHolds(At(a, dt, w.s), K, p) <=> (In(a, K, p) \/ (In(dt, K, p) /\ ~In(w.s, K, p)))
      BY SubtractAt
    <3>2. InSpan(d1, K, p) => ~In(w.s, K, p)
      BY <1>i, <1>f, <1>h, <1>5
    <3> QED BY <1>h, <2>3, <3>1, <3>2
  <2> QED BY <2>1, <2>2, <2>4
<1>o. ASSUME ~(d1.start >= s1.end), ~(d1.end <= s1.start)
      PROVE  /\ Overlapping(T, d1, s1) /\ e \in Int /\ d1.start < e /\ s1.start < e /\ e <= d1.end /\ e <= s1.end
             /\ m \in Int /\ d1.start <= m /\ s1.start <= m /\ m < e /\ (m = d1.start \/ m = s1.start)
  <2>1. Overlapping(T, d1, s1)
    BY <1>t, <1>i, <1>f, <1>o DEF Overlapping
  <2> QED BY <1>i, <1>f, <1>o, <2>1 DEF Smaller, Greater
<1>6. CASE ~(d1.start >= s1.end) /\ ~(d1.end <= s1.start) /\ v = <<>>
  <2> DEFINE b == done \o Before(d1, s1)
             rest == After(d1, s1) \o dt
  <2>1. SubtractStep(inner, w) = At(b, rest, w.s)
    <3>1. Shared(d1, s1, v).sub = v
      BY DEF Shared, Span
    <3> QED BY <1>2, <1>6, <3>1, Zenon DEF SubtractStep, v
  <2>2. /\ Overlapping(T, d1, s1) /\ e \in Int /\ d1.start < e /\ s1.start < e /\ e <= d1.end /\ e <= s1.end
        /\ m \in Int /\ d1.start <= m /\ s1.start <= m /\ m < e /\ (m = d1.start \/ m = s1.start)
    BY <1>6, <1>o
  <2>3. /\ b \in ListsOf(T) /\ InOrder(b) /\ Until(b, m)
        /\ \A K : \A p \in Int : In(b, K, p) <=> (In(done, K, p) \/ (InSpan(d1, K, p) /\ p < m))
    BY <1>t, <1>f, <2>2, BeforeMeans
  <2>4. rest \in ListsOf(T)
    BY <1>t, RestTypes, Zenon
  <2>5. InOrder(rest) /\ From(rest, e)
    BY <1>t, <1>f, <2>2, RestMeans
  <2>6. ASSUME NEW K, NEW p \in Int PROVE In(rest, K, p) <=> (e <= p /\ (InSpan(d1, K, p) \/ In(dt, K, p)))
    BY <1>t, <1>f, <2>2, RestMeans
  <2> HIDE DEF b, rest, e, m
  <2>7. Fits(At(b, rest, w.s))
    <3>1. m <= e
      BY <2>2
    <3>2. From(rest, m)
      BY <2>2, <2>4, <2>5, <3>1, Later
    <3> QED BY <1>f, <2>2, <2>3, <2>5, <3>2, FitsAt
  <2>8. ASSUME NEW K, NEW p \in Int, SubtractInner(inner, T, K)
        PROVE  SubtractHolds(At(b, rest, w.s), K, p) <=> SubtractHolds(w, K, p)
    <3>1. SubtractHolds(At(b, rest, w.s), K, p) <=> (In(b, K, p) \/ (In(rest, K, p) /\ ~In(w.s, K, p)))
      BY SubtractAt
    <3>2. ~(d1.sub \in K /\ s1.sub \notin K)
      BY <1>k, <1>6, <2>8
    <3>3. In(b, K, p) <=> (In(done, K, p) \/ (InSpan(d1, K, p) /\ p < m))
      BY <2>3
    <3>4. CASE p < m
      BY <1>i, <1>h, <2>2, <2>6, <3>1, <3>3, <3>4
    <3>5. CASE m <= p /\ p < e
      BY <1>i, <1>h, <2>2, <2>6, <3>1, <3>2, <3>3, <3>5
    <3>6. CASE e <= p
      <4>1. ~(p < m) /\ (In(rest, K, p) <=> In(w.d, K, p))
        BY <1>h, <2>2, <2>6, <3>6
      <4> QED BY <1>h, <3>1, <3>3, <4>1
    <3> QED BY <2>2, <3>4, <3>5, <3>6
  <2> QED BY <2>1, <2>7, <2>8
<1>7. CASE ~(d1.start >= s1.end) /\ ~(d1.end <= s1.start) /\ v # <<>>
  <2>1. SubtractStep(inner, w) = SubtractMeet(w, v) /\ v \in T
    BY <1>2, <1>v, <1>7, SubtractMeets DEF v
  <2>2. Overlapping(T, d1, s1)
    BY <1>7, <1>o
  <2>3. /\ Fits(SubtractMeet(w, v))
        /\ \A K : \A p \in Int : Left(v, d1.sub, s1.sub, K) =>
               (SubtractHolds(SubtractMeet(w, v), K, p) <=> SubtractHolds(w, K, p))
    BY <1>1, <2>1, <2>2, SubtractMeetMeans
  <2>4. ASSUME NEW K, SubtractInner(inner, T, K) PROVE Left(v, d1.sub, s1.sub, K)
    BY <1>k, <1>7, <2>4
  <2> QED BY <2>1, <2>3, <2>4
<1> QED BY <1>4, <1>5, <1>6, <1>7

-----------------------------------------------------------------------------
IsSubtractWalk(inner, f) ==
    f = [w \in Walk |-> IF w.s = <<>> \/ w.d = <<>> THEN w.done \o w.d ELSE f[SubtractStep(inner, w)]]

\* The loop of sraSpanListSubtract has a result for every walk.
LEMMA SubtractWalk ==
  ASSUME NEW inner, SubtractClosed(inner, HLists)
  PROVE  \E f : /\ IsSubtractWalk(inner, f)
                /\ SubtractLists(inner) = [d \in Lists |-> [s \in Lists |-> f[At(<<>>, d, s)]]]
<1> DEFINE E == {w \in Walk : w.s = <<>> \/ w.d = <<>>}
           res == [w \in Walk |-> w.done \o w.d]
           step == [w \in Walk |-> IF w.s = <<>> \/ w.d = <<>> THEN w ELSE SubtractStep(inner, w)]
           m == [w \in Walk |-> Size(w)]
<1>1. ASSUME NEW w \in Walk, w.s # <<>>, w.d # <<>>
      PROVE  SubtractStep(inner, w) \in Walk /\ Size(SubtractStep(inner, w)) < Size(w)
  BY <1>1, Walks, SubtractStepShrinks
<1>2. /\ m \in [Walk -> Nat] /\ res \in [Walk -> Lists] /\ step \in [Walk -> Walk] /\ Lists # {}
  <2>1. m \in [Walk -> Nat]
    BY Walks
  <2>2. ASSUME NEW w \in Walk PROVE w.done \o w.d \in Lists
    <3>1. w.done \in ListsOf(HLists) /\ w.d \in ListsOf(HLists)
      BY Walks DEF WalkOf
    <3> QED BY <3>1, ListJoin, BothKinds, Zenon
  <2>3. step \in [Walk -> Walk]
    BY <1>1
  <2>4. Lists # {}
    BY BothKinds, ListNone
  <2> QED BY <2>1, <2>2, <2>3, <2>4
<1>3. \A w \in Walk : w \notin E => m[step[w]] < m[w]
  BY <1>1, <1>2
<1>4. PICK f \in [Walk -> Lists] : Loops(Walk, E, res, step, f)
  <2> HIDE DEF E, res, step, m
  <2> QED BY <1>2, <1>3, While, Zenon
<1>5. f = [w \in Walk |-> IF w.s = <<>> \/ w.d = <<>> THEN w.done \o w.d ELSE f[SubtractStep(inner, w)]]
  BY <1>4, Zenon DEF Loops
<1> DEFINE g == CHOOSE g : g = [w \in Walk |-> IF w.s = <<>> \/ w.d = <<>> THEN w.done \o w.d
                                               ELSE g[SubtractStep(inner, w)]]
<1>6. g = [w \in Walk |-> IF w.s = <<>> \/ w.d = <<>> THEN w.done \o w.d ELSE g[SubtractStep(inner, w)]]
  BY <1>5, Zenon
<1>7. SubtractLists(inner) = [d \in Lists |-> [s \in Lists |-> g[At(<<>>, d, s)]]]
  BY DEF SubtractLists
<1> HIDE DEF g
<1>8. IsSubtractWalk(inner, g)
  BY <1>6, Zenon DEF IsSubtractWalk
<1> QED BY <1>7, <1>8

SubtractResult(inner, T, w, l) ==
    /\ l \in ListsOf(T)
    /\ Fits(w) => InOrder(l)
    /\ Fits(w) => \A K : \A p \in Int : SubtractInner(inner, T, K) => (In(l, K, p) <=> SubtractHolds(w, K, p))

\* It holds what the walk held, in order.
LEMMA SubtractRun ==
  ASSUME NEW inner, SubtractClosed(inner, HLists), NEW T \in SUBSET HLists, SubtractClosed(inner, T),
         NEW f, IsSubtractWalk(inner, f), NEW w \in WalkOf(T)
  PROVE  SubtractResult(inner, T, w, f[w])
<1> DEFINE X == WalkOf(T)
           G == {v \in X : SubtractResult(inner, T, v, f[v])}
           m == [v \in X |-> Size(v)]
<1>1. ASSUME NEW v \in X, \A u \in X : Size(u) < Size(v) => u \in G PROVE SubtractResult(inner, T, v, f[v])
  <2>1. v \in Walk
    BY Walks
  <2>2. CASE v.s = <<>> \/ v.d = <<>>
    <3> DEFINE l == v.done \o v.d
    <3>1. f[v] = l
      BY <2>1, <2>2, Zenon DEF IsSubtractWalk
    <3>2. v.done \in ListsOf(T) /\ v.d \in ListsOf(T)
      BY DEF WalkOf
    <3>3. l \in ListsOf(T)
      BY <3>2, ListJoin, Zenon
    <3>4. ASSUME Fits(v) PROVE InOrder(l)
      <4>1. PICK n \in Int : Until(v.done, n) /\ From(v.d, n) /\ InOrder(v.done) /\ InOrder(v.d)
        BY <3>4 DEF Fits
      <4> QED BY <3>2, <4>1, OrderJoin
    <3>5. ASSUME NEW K, NEW p \in Int PROVE In(l, K, p) <=> SubtractHolds(v, K, p)
      <4>1. In(l, K, p) <=> In(v.done, K, p) \/ In(v.d, K, p)
        BY <3>2, ListJoin
      <4>2. ~In(v.s, K, p) \/ ~In(v.d, K, p)
        BY <2>2, ListNone
      <4> QED BY <4>1, <4>2 DEF SubtractHolds
    <3> HIDE DEF l
    <3> QED BY <3>1, <3>3, <3>4, <3>5 DEF SubtractResult
  <2>3. CASE v.s # <<>> /\ v.d # <<>>
    <3> DEFINE u == SubtractStep(inner, v)
    <3>1. f[v] = f[u]
      BY <2>1, <2>3, Zenon DEF IsSubtractWalk
    <3>2. u \in X /\ Size(u) < Size(v)
      BY <2>3, SubtractStepShrinks
    <3>3. SubtractResult(inner, T, u, f[u])
      BY <1>1, <3>2
    <3>4. Fits(v) => /\ Fits(u)
                     /\ \A K : \A p \in Int : SubtractInner(inner, T, K) => (SubtractHolds(u, K, p) <=> SubtractHolds(v, K, p))
      BY <2>3, SubtractStepMeans
    <3> HIDE DEF u
    <3> QED BY <3>1, <3>3, <3>4 DEF SubtractResult
  <2> QED BY <2>2, <2>3
<1>2. X \subseteq G
  <2>1. m \in [X -> Nat]
    BY Walks
  <2>2. \A x \in X : (\A z \in X : m[z] < m[x] => z \in G) => x \in G
    BY <1>1
  <2> HIDE DEF X, G, m
  <2> QED BY <2>1, <2>2, Induction
<1> QED BY <1>2

\* sraSpanListSubtract, at either level: what one list holds and the other not.
LEMMA SubtractListsMeans ==
  ASSUME NEW inner, SubtractClosed(inner, HLists), NEW T \in SUBSET HLists, SubtractClosed(inner, T),
         NEW a \in ListsOf(T), NEW b \in ListsOf(T)
  PROVE  LET l == SubtractLists(inner)[a][b] IN
         /\ l \in ListsOf(T)
         /\ InOrder(a) /\ InOrder(b) => InOrder(l)
         /\ InOrder(a) /\ InOrder(b) => \A K : \A p \in Int : SubtractInner(inner, T, K) =>
                (In(l, K, p) <=> (In(a, K, p) /\ ~In(b, K, p)))
<1> DEFINE w == At(<<>>, a, b)
           l == SubtractLists(inner)[a][b]
<1>1. PICK f : /\ IsSubtractWalk(inner, f)
               /\ SubtractLists(inner) = [d \in Lists |-> [s \in Lists |-> f[At(<<>>, d, s)]]]
  BY SubtractWalk
<1>2. l = f[w]
  <2>1. a \in Lists /\ b \in Lists
    BY BothKinds
  <2> QED BY <1>1, <2>1
<1>3. w \in WalkOf(T)
  BY ListNone, AtTypes
<1>4. SubtractResult(inner, T, w, l)
  <2> HIDE DEF w, l
  <2> QED BY <1>1, <1>2, <1>3, SubtractRun
<1>5. ASSUME InOrder(a), InOrder(b) PROVE Fits(w)
  <2>1. PICK n \in Int : From(a, n)
    BY <1>5, Below
  <2>2. InOrder(<<>>) /\ Until(<<>>, n)
    BY ListNone
  <2> QED BY <1>5, <2>1, <2>2, FitsAt
<1>6. ASSUME NEW K, NEW p PROVE SubtractHolds(w, K, p) <=> (In(a, K, p) /\ ~In(b, K, p))
  <2>1. ~In(<<>>, K, p)
    BY ListNone
  <2> QED BY <2>1, SubtractAt
<1> HIDE DEF w, l
<1> QED BY <1>4, <1>5, <1>6 DEF SubtractResult, l

-----------------------------------------------------------------------------
(* Lists of lists in one. *)

\* Induction up to n.
LEMMA UpTo ==
  ASSUME NEW n \in Nat, NEW G, 1 \in G, \A i \in 1..n : i \in G /\ i < n => i + 1 \in G
  PROVE  1..n \subseteq G
<1> DEFINE X == 1..n
           m == [i \in X |-> i]
<1>1. m \in [X -> Nat]
  OBVIOUS
<1>2. ASSUME NEW i \in X, \A j \in X : m[j] < m[i] => j \in G PROVE i \in G
  <2>1. CASE i = 1
    BY <2>1
  <2>2. CASE i # 1
    <3>1. i - 1 \in X /\ i - 1 < i /\ i - 1 < n /\ (i - 1) + 1 = i
      BY <2>2
    <3>2. m[i - 1] < m[i]
      BY <3>1
    <3>3. i - 1 \in G
      BY <1>2, <3>1, <3>2
    <3> QED BY <3>1, <3>3
  <2> QED BY <2>1, <2>2
<1> HIDE DEF X, m
<1>3. X \subseteq G
  BY <1>1, <1>2, Induction
<1> QED BY <1>3 DEF X

\* f[i] joins the first i lists of ss.
Flattens(S, ss, f) ==
    /\ f \in [1..Len(ss) -> Seq(S)]
    /\ f[1] = ss[1]
    /\ \A i \in 2..Len(ss) : f[i] = f[i - 1] \o ss[i]
    /\ FlattenSeq(ss) = f[Len(ss)]

\* FlattenSeq, unfolded.
LEMMA Flattened ==
  ASSUME NEW S, NEW ss \in Seq(Seq(S)), Len(ss) > 0
  PROVE  \E f : Flattens(S, ss, f)
<1> DEFINE n == Len(ss)
           X == 1..n
           Y == Seq(S)
           m == [i \in X |-> i]
           D == [f \in [X -> Y] |-> [i \in X |-> IF i = 1 THEN ss[i] ELSE f[i - 1] \o ss[i]]]
<1>1. n \in Nat /\ n > 0 /\ \A i \in X : ss[i] \in Y
  OBVIOUS
<1> HIDE DEF n
<1>2. Y # {}
  OBVIOUS
<1>3. m \in [X -> Nat]
  BY <1>1
<1>4. D \in [[X -> Y] -> [X -> Y]]
  <2>1. ASSUME NEW f \in [X -> Y], NEW i \in X PROVE (IF i = 1 THEN ss[i] ELSE f[i - 1] \o ss[i]) \in Y
    <3>1. CASE i = 1
      BY <1>1, <3>1
    <3>2. CASE i # 1
      <4>1. i - 1 \in X
        BY <1>1, <3>2
      <4>2. f[i - 1] \in Seq(S) /\ ss[i] \in Seq(S)
        BY <1>1, <4>1
      <4>3. f[i - 1] \o ss[i] \in Seq(S)
        BY <4>2, ConcatProperties
      <4> QED BY <3>2, <4>3
    <3> QED BY <3>1, <3>2
  <2> HIDE DEF Y
  <2> QED BY <2>1, Zenon
<1>5. Determined(X, Y, m, D)
  <2>1. ASSUME NEW f \in [X -> Y], NEW g \in [X -> Y], NEW i \in X,
               \A j \in X : m[j] < m[i] => f[j] = g[j]
        PROVE  D[f][i] = D[g][i]
    <3>1. CASE i = 1
      BY <3>1
    <3>2. CASE i # 1
      <4>1. i - 1 \in X /\ m[i - 1] < m[i]
        BY <1>1, <3>2
      <4>2. f[i - 1] = g[i - 1]
        BY <2>1, <4>1
      <4> QED BY <3>2, <4>2, Zenon
    <3> QED BY <3>1, <3>2
  <2> HIDE DEF X, Y, m, D
  <2> QED BY <2>1 DEF Determined
<1>6. PICK f \in [X -> Y] : Solves(X, D, f)
  <2> HIDE DEF X, Y, m, D
  <2> QED BY <1>2, <1>3, <1>4, <1>5, Recursion, Zenon
<1>7. f = [i \in X |-> IF i = 1 THEN ss[i] ELSE f[i - 1] \o ss[i]]
  BY <1>6, Zenon DEF Solves
<1> DEFINE g == CHOOSE g : g = [i \in X |-> IF i = 1 THEN ss[i] ELSE g[i - 1] \o ss[i]]
<1>8. g = [i \in X |-> IF i = 1 THEN ss[i] ELSE g[i - 1] \o ss[i]]
  BY <1>7, Zenon
<1>9. FlattenSeq(ss) = g[n]
  BY <1>1 DEF FlattenSeq, n
<1> HIDE DEF g
<1>10. ASSUME NEW i \in X, g[i] \in Y, i < n PROVE g[i + 1] \in Y
  <2>1. i + 1 \in X /\ i + 1 # 1 /\ (i + 1) - 1 = i
    BY <1>1, <1>10
  <2>2. g[i + 1] = g[i] \o ss[i + 1]
    BY <1>8, <2>1, Zenon
  <2>3. g[i] \in Seq(S) /\ ss[i + 1] \in Seq(S)
    BY <1>1, <1>10, <2>1
  <2> QED BY <2>2, <2>3, ConcatProperties
<1>11. \A i \in X : g[i] \in Y
  <2> DEFINE G == {i \in X : g[i] \in Y}
  <2>1. 1 \in X /\ g[1] = ss[1]
    BY <1>1, <1>8
  <2>2. 1 \in G
    BY <1>1, <2>1
  <2>3. \A i \in 1..n : i \in G /\ i < n => i + 1 \in G
    BY <1>1, <1>10
  <2> HIDE DEF G
  <2>4. X \subseteq G
    BY <1>1, <2>2, <2>3, UpTo, Zenon
  <2> QED BY <2>4 DEF G
<1>12. g \in [X -> Y]
  <2> HIDE DEF X, Y
  <2>1. DOMAIN g = X /\ g = [i \in DOMAIN g |-> g[i]]
    BY <1>8
  <2> QED BY <1>11, <2>1
<1>13. g[1] = ss[1] /\ \A i \in 2..n : g[i] = g[i - 1] \o ss[i]
  <2>1. ASSUME NEW i \in 2..n PROVE g[i] = g[i - 1] \o ss[i]
    <3>1. i \in X /\ i # 1
      BY <1>1
    <3> QED BY <1>8, <3>1, Zenon
  <2>2. 1 \in X
    BY <1>1
  <2> QED BY <1>8, <2>1, <2>2, Zenon
<1>14. Flattens(S, ss, g)
  BY <1>9, <1>12, <1>13, Zenon DEF Flattens, n
<1> QED BY <1>14

\* The members of all the lists are those of the flat one.
LEMMA FlattenedSet ==
  ASSUME NEW S, NEW ss \in Seq(Seq(S))
  PROVE  /\ FlattenSeq(ss) \in Seq(S)
         /\ ToSet(FlattenSeq(ss)) = UNION {ToSet(ss[i]) : i \in 1..Len(ss)}
<1> DEFINE n == Len(ss)
<1>1. n \in Nat /\ \A i \in 1..n : ss[i] \in Seq(S)
  OBVIOUS
<1>2. CASE n = 0
  <2>1. ss = <<>>
    BY <1>2
  <2>2. FlattenSeq(ss) = <<>>
    BY <1>2, <2>1 DEF FlattenSeq
  <2>3. ToSet(<<>>) = {}
    BY JoinOne, Zenon
  <2>4. 1..n = {}
    BY <1>2
  <2> QED BY <2>2, <2>3, <2>4
<1>3. CASE n > 0
  <2>1. PICK f : Flattens(S, ss, f)
    BY <1>3, Flattened
  <2> HIDE DEF n
  <2>2. /\ f \in [1..n -> Seq(S)] /\ f[1] = ss[1] /\ FlattenSeq(ss) = f[n]
        /\ \A i \in 2..n : f[i] = f[i - 1] \o ss[i]
    BY <2>1, Zenon DEF Flattens, n
  <2> DEFINE G == {i \in 1..n : ToSet(f[i]) = UNION {ToSet(ss[j]) : j \in 1..i}}
  <2>3. 1 \in G
    <3>1. 1..1 = {1} /\ 1 \in 1..n
      BY <1>1, <1>3
    <3> QED BY <2>2, <3>1
  <2>4. ASSUME NEW i \in 1..n, i \in G, i < n PROVE i + 1 \in G
    <3>1. i + 1 \in 2..n /\ (i + 1) - 1 = i /\ i + 1 \in 1..n
      BY <1>1, <2>4
    <3>2. f[i + 1] = f[i] \o ss[i + 1]
      BY <2>2, <3>1, Zenon
    <3>3. f[i] \in Seq(S) /\ ss[i + 1] \in Seq(S)
      BY <1>1, <2>2, <3>1
    <3>4. ToSet(f[i + 1]) = ToSet(f[i]) \cup ToSet(ss[i + 1])
      BY <3>2, <3>3, JoinSet
    <3>5. 1..(i + 1) = (1..i) \cup {i + 1}
      BY <2>4
    <3>6. ToSet(f[i]) = UNION {ToSet(ss[j]) : j \in 1..i}
      BY <2>4
    <3>7. ToSet(f[i + 1]) = UNION {ToSet(ss[j]) : j \in 1..(i + 1)}
      BY <3>4, <3>5, <3>6
    <3> QED BY <3>1, <3>7
  <2> HIDE DEF G
  <2>5. n \in G
    <3>1. 1..n \subseteq G
      BY <1>1, <2>3, <2>4, UpTo, Zenon
    <3> QED BY <1>1, <1>3, <3>1
  <2>6. n \in 1..n
    BY <1>1, <1>3
  <2> QED BY <2>2, <2>5, <2>6, Zenon DEF G, n
<1> QED BY <1>1, <1>2, <1>3

-----------------------------------------------------------------------------
(* The two levels of a region. *)

None == {<<>>}

\* The lists of horizontal spans that a vertical span of a region may hold, and
\* those of them that cover the column x.
Filled  == {h \in HLists : h # <<>> /\ InOrder(h)}
Over(x) == {h \in HLists : In(h, None, x)}

\* The lists of the two levels.
LEMMA Levels ==
  /\ HLists = ListsOf(None) /\ None \in SUBSET HLists
  /\ Filled \in SUBSET HLists /\ HLists \in SUBSET HLists
  /\ \A a \in HLists : \A b \in HLists : Nothing[a][b] = <<>>
<1>1. HLists = ListsOf(None)
  BY DEF HLists, ListsOf, SpanOf, None
<1>2. <<>> \in HLists
  BY <1>1, ListNone
<1> QED BY <1>1, <1>2 DEF None, Filled, Nothing

\* A horizontal list that is filled holds something.
LEMMA Covered ==
  ASSUME NEW h \in Filled
  PROVE  \E x \in Int : h \in Over(x)
<1> DEFINE s == Head(h)
           t == Tail(h)
<1>1. h \in ListsOf(None) /\ h # <<>> /\ InOrder(h) /\ h \in HLists
  BY Levels DEF Filled
<1>2. s \in SpanOf(None) /\ t \in ListsOf(None) /\ h = <<s>> \o t
  BY <1>1, ListHead
<1> HIDE DEF s, t
<1>3. s.start < s.end
  BY <1>1, <1>2, OrderFirst
<1>4. s.start \in Int /\ s.end \in Int /\ s.sub \in None
  BY <1>2, SpanTypes
<1>5. InSpan(s, None, s.start)
  BY <1>3, <1>4 DEF InSpan
<1>6. In(h, None, s.start)
  BY <1>2, <1>5, ListPrepend
<1> QED BY <1>1, <1>4, <1>6 DEF Over

\* The empty list is over no column.
LEMMA Uncovered == \A x : <<>> \notin Over(x)
BY ListNone DEF Over

\* sraSpanListOr of two horizontal lists, by columns.
LEMMA OrColumns ==
  ASSUME NEW a, a \in HLists, NEW b, b \in HLists
  PROVE  LET l == OrLists(Nothing)[a][b] IN
         /\ l \in HLists
         /\ InOrder(a) /\ InOrder(b) => InOrder(l)
         /\ InOrder(a) /\ InOrder(b) => \A x \in Int : l \in Over(x) <=> (a \in Over(x) \/ b \in Over(x))
<1> DEFINE l == OrLists(Nothing)[a][b]
<1>1. Closed(Nothing, HLists) /\ Closed(Nothing, None) /\ OrInner(Nothing, None, None)
  BY Levels DEF Closed, OrInner, None
<1>2. a \in ListsOf(None) /\ b \in ListsOf(None)
  BY Levels
<1>3. l \in ListsOf(None)
  BY <1>1, <1>2, Levels, OrListsMeans
<1>4. ASSUME InOrder(a), InOrder(b)
      PROVE  InOrder(l) /\ \A x \in Int : In(l, None, x) <=> (In(a, None, x) \/ In(b, None, x))
  BY <1>1, <1>2, <1>4, Levels, OrListsMeans
<1> HIDE DEF l
<1> QED BY <1>3, <1>4, Levels DEF Over, l

\* sraSpanListAnd of two horizontal lists, by columns.
LEMMA AndColumns ==
  ASSUME NEW a, a \in HLists, NEW b, b \in HLists
  PROVE  LET l == AndLists(Nothing)[a][b] IN
         /\ l \in HLists
         /\ InOrder(a) /\ InOrder(b) => InOrder(l)
         /\ InOrder(a) /\ InOrder(b) => \A x \in Int : l \in Over(x) <=> (a \in Over(x) /\ b \in Over(x))
<1> DEFINE l == AndLists(Nothing)[a][b]
<1>1. AndClosed(Nothing, HLists) /\ AndClosed(Nothing, None) /\ AndInner(Nothing, None, None)
  BY Levels DEF AndClosed, AndInner, None
<1>2. a \in ListsOf(None) /\ b \in ListsOf(None)
  BY Levels
<1>3. l \in ListsOf(None)
  BY <1>1, <1>2, Levels, AndListsMeans
<1>4. ASSUME InOrder(a), InOrder(b)
      PROVE  InOrder(l) /\ \A x \in Int : In(l, None, x) <=> (In(a, None, x) /\ In(b, None, x))
  BY <1>1, <1>2, <1>4, Levels, AndListsMeans
<1> HIDE DEF l
<1> QED BY <1>3, <1>4, Levels DEF Over, l

\* sraSpanListSubtract of two horizontal lists, by columns.
LEMMA SubtractColumns ==
  ASSUME NEW a, a \in HLists, NEW b, b \in HLists
  PROVE  LET l == SubtractLists(Nothing)[a][b] IN
         /\ l \in HLists
         /\ InOrder(a) /\ InOrder(b) => InOrder(l)
         /\ InOrder(a) /\ InOrder(b) => \A x \in Int : l \in Over(x) <=> (a \in Over(x) /\ b \notin Over(x))
<1> DEFINE l == SubtractLists(Nothing)[a][b]
<1>1. SubtractClosed(Nothing, HLists) /\ SubtractClosed(Nothing, None) /\ SubtractInner(Nothing, None, None)
  BY Levels DEF SubtractClosed, SubtractInner, None
<1>2. a \in ListsOf(None) /\ b \in ListsOf(None)
  BY Levels
<1>3. l \in ListsOf(None)
  BY <1>1, <1>2, Levels, SubtractListsMeans
<1>4. ASSUME InOrder(a), InOrder(b)
      PROVE  InOrder(l) /\ \A x \in Int : In(l, None, x) <=> (In(a, None, x) /\ ~In(b, None, x))
  BY <1>1, <1>2, <1>4, Levels, SubtractListsMeans
<1> HIDE DEF l
<1> QED BY <1>2, <1>3, <1>4, Levels DEF Over, l

\* What a region covers.
Covers(region, x, y) == In(region, Over(x), y)

\* A region in order is a list in order of filled lists.
LEMMA OrderlyIs ==
  ASSUME NEW region
  PROVE  Orderly(region) <=> region \in ListsOf(Filled) /\ InOrder(region)
<1>1. ASSUME Orderly(region) PROVE region \in ListsOf(Filled)
  <2>1. region \in Seq(SpanOf(HLists))
    BY <1>1, BothKinds DEF Orderly, ListsOf
  <2>2. ASSUME NEW i \in 1..Len(region) PROVE region[i] \in SpanOf(Filled)
    <3>1. region[i] \in SpanOf(HLists) /\ i \in DOMAIN region
      BY <2>1
    <3>2. region[i].sub # <<>> /\ InOrder(region[i].sub)
      BY <1>1, <3>1 DEF Orderly
    <3> QED BY <3>1, <3>2 DEF SpanOf, Filled
  <2>3. region \in Seq(SpanOf(Filled))
    BY <2>1, <2>2
  <2> QED BY <2>3 DEF ListsOf
<1>2. ASSUME region \in ListsOf(Filled), InOrder(region) PROVE Orderly(region)
  <2>1. region \in Lists
    BY <1>2, Levels, BothKinds
  <2>2. ASSUME NEW i \in DOMAIN region PROVE region[i].sub # <<>> /\ InOrder(region[i].sub)
    <3>1. region[i] \in SpanOf(Filled)
      BY <1>2 DEF ListsOf
    <3> QED BY <3>1 DEF SpanOf, Filled
  <2> QED BY <1>2, <2>1, <2>2 DEF Orderly
<1>3. Orderly(region) => InOrder(region)
  BY DEF Orderly
<1> QED BY <1>1, <1>2, <1>3

\* sraRgnOr, by rows and columns.
LEMMA OrCovers ==
  ASSUME NEW a, NEW b, Orderly(a), Orderly(b)
  PROVE  /\ Orderly(Or(a, b))
         /\ \A x, y \in Int : Covers(Or(a, b), x, y) <=> (Covers(a, x, y) \/ Covers(b, x, y))
<1> DEFINE inner == OrLists(Nothing)
<1>1. a \in ListsOf(Filled) /\ InOrder(a) /\ b \in ListsOf(Filled) /\ InOrder(b)
  BY OrderlyIs
<1>2. Closed(inner, HLists)
  BY OrColumns DEF Closed
<1>3. ASSUME NEW f \in Filled, NEW g \in Filled
      PROVE  inner[f][g] \in Filled /\ \A x \in Int : inner[f][g] \in Over(x) <=> (f \in Over(x) \/ g \in Over(x))
  <2>1. f \in HLists /\ g \in HLists /\ InOrder(f) /\ InOrder(g)
    BY DEF Filled
  <2>2. inner[f][g] \in HLists /\ InOrder(inner[f][g])
    BY <2>1, OrColumns
  <2>3. \A x \in Int : inner[f][g] \in Over(x) <=> (f \in Over(x) \/ g \in Over(x))
    BY <2>1, OrColumns
  <2> HIDE DEF inner
  <2>4. PICK x \in Int : f \in Over(x)
    BY Covered
  <2>5. inner[f][g] # <<>>
    BY <2>3, <2>4, Uncovered
  <2> QED BY <2>2, <2>3, <2>5 DEF Filled
<1> HIDE DEF inner
<1>4. Closed(inner, Filled)
  BY <1>3 DEF Closed
<1>5. ASSUME NEW x \in Int PROVE OrInner(inner, Filled, Over(x))
  BY <1>3 DEF OrInner
<1>6. Or(a, b) = OrLists(inner)[a][b]
  BY DEF Or, inner
<1>7. Or(a, b) \in ListsOf(Filled) /\ InOrder(Or(a, b))
  BY <1>1, <1>2, <1>4, <1>6, Levels, OrListsMeans
<1>8. ASSUME NEW x \in Int, NEW y \in Int
      PROVE  Covers(Or(a, b), x, y) <=> (Covers(a, x, y) \/ Covers(b, x, y))
  <2>1. OrInner(inner, Filled, Over(x))
    BY <1>5
  <2> HIDE DEF Over
  <2>2. In(Or(a, b), Over(x), y) <=> (In(a, Over(x), y) \/ In(b, Over(x), y))
    BY <1>1, <1>2, <1>4, <1>6, <2>1, Levels, OrListsMeans
  <2> QED BY <2>2 DEF Covers
<1> QED BY <1>7, <1>8, OrderlyIs

\* sraRgnAnd, by rows and columns.
LEMMA AndCovers ==
  ASSUME NEW a, NEW b, Orderly(a), Orderly(b)
  PROVE  /\ Orderly(And(a, b))
         /\ \A x, y \in Int : Covers(And(a, b), x, y) <=> (Covers(a, x, y) /\ Covers(b, x, y))
<1> DEFINE inner == AndLists(Nothing)
<1>1. a \in ListsOf(Filled) /\ InOrder(a) /\ b \in ListsOf(Filled) /\ InOrder(b)
  BY OrderlyIs
<1>2. AndClosed(inner, HLists)
  BY AndColumns DEF AndClosed
<1>3. ASSUME NEW f \in Filled, NEW g \in Filled
      PROVE  /\ inner[f][g] = <<>> \/ inner[f][g] \in Filled
             /\ \A x \in Int : inner[f][g] \in Over(x) <=> (f \in Over(x) /\ g \in Over(x))
  <2>1. f \in HLists /\ g \in HLists /\ InOrder(f) /\ InOrder(g)
    BY DEF Filled
  <2>2. inner[f][g] \in HLists /\ InOrder(inner[f][g])
    BY <2>1, AndColumns
  <2>3. \A x \in Int : inner[f][g] \in Over(x) <=> (f \in Over(x) /\ g \in Over(x))
    BY <2>1, AndColumns
  <2> HIDE DEF inner
  <2> QED BY <2>2, <2>3 DEF Filled
<1> HIDE DEF inner
<1>4. AndClosed(inner, Filled)
  BY <1>3 DEF AndClosed, Filled
<1>5. ASSUME NEW x \in Int PROVE AndInner(inner, Filled, Over(x))
  <2>1. ASSUME NEW f \in Filled, NEW g \in Filled
        PROVE  IF f # <<>> /\ inner[f][g] = <<>> THEN ~(f \in Over(x) /\ g \in Over(x))
               ELSE inner[f][g] \in Filled /\ (inner[f][g] \in Over(x) <=> f \in Over(x) /\ g \in Over(x))
    <3>1. f # <<>>
      BY DEF Filled
    <3>2. inner[f][g] \in Over(x) <=> (f \in Over(x) /\ g \in Over(x))
      BY <1>3
    <3>3. inner[f][g] = <<>> \/ inner[f][g] \in Filled
      BY <1>3
    <3> QED BY <3>1, <3>2, <3>3, Uncovered
  <2> HIDE DEF Over
  <2> QED BY <2>1 DEF AndInner
<1>6. And(a, b) = AndLists(inner)[a][b]
  BY DEF And, inner
<1>7. And(a, b) \in ListsOf(Filled) /\ InOrder(And(a, b))
  BY <1>1, <1>2, <1>4, <1>6, Levels, AndListsMeans
<1>8. ASSUME NEW x \in Int, NEW y \in Int
      PROVE  Covers(And(a, b), x, y) <=> (Covers(a, x, y) /\ Covers(b, x, y))
  <2>1. AndInner(inner, Filled, Over(x))
    BY <1>5
  <2>2. In(And(a, b), Over(x), y) <=> (In(a, Over(x), y) /\ In(b, Over(x), y))
    BY <1>1, <1>2, <1>4, <1>6, <2>1, Levels, AndListsMeans
  <2> QED BY <2>2 DEF Covers
<1> QED BY <1>7, <1>8, OrderlyIs

\* sraRgnSubtract, by rows and columns.
LEMMA SubtractCovers ==
  ASSUME NEW a, NEW b, Orderly(a), Orderly(b)
  PROVE  /\ Orderly(Subtract(a, b))
         /\ \A x, y \in Int : Covers(Subtract(a, b), x, y) <=> (Covers(a, x, y) /\ ~Covers(b, x, y))
<1> DEFINE inner == SubtractLists(Nothing)
<1>1. a \in ListsOf(Filled) /\ InOrder(a) /\ b \in ListsOf(Filled) /\ InOrder(b)
  BY OrderlyIs
<1>2. SubtractClosed(inner, HLists)
  BY SubtractColumns DEF SubtractClosed
<1>3. ASSUME NEW f \in Filled, NEW g \in Filled
      PROVE  /\ inner[f][g] = <<>> \/ inner[f][g] \in Filled
             /\ \A x \in Int : inner[f][g] \in Over(x) <=> (f \in Over(x) /\ g \notin Over(x))
  <2>1. f \in HLists /\ g \in HLists /\ InOrder(f) /\ InOrder(g)
    BY DEF Filled
  <2>2. inner[f][g] \in HLists /\ InOrder(inner[f][g])
    BY <2>1, SubtractColumns
  <2>3. \A x \in Int : inner[f][g] \in Over(x) <=> (f \in Over(x) /\ g \notin Over(x))
    BY <2>1, SubtractColumns
  <2> HIDE DEF inner
  <2> QED BY <2>2, <2>3 DEF Filled
<1> HIDE DEF inner
<1>4. SubtractClosed(inner, Filled)
  BY <1>3 DEF SubtractClosed
<1>5. ASSUME NEW x \in Int PROVE SubtractInner(inner, Filled, Over(x))
  <2>1. ASSUME NEW f \in Filled, NEW g \in Filled
        PROVE  IF inner[f][g] = <<>> THEN ~(f \in Over(x) /\ g \notin Over(x))
               ELSE inner[f][g] \in Filled /\ (inner[f][g] \in Over(x) <=> f \in Over(x) /\ g \notin Over(x))
    <3>1. inner[f][g] \in Over(x) <=> (f \in Over(x) /\ g \notin Over(x))
      BY <1>3
    <3>2. inner[f][g] = <<>> \/ inner[f][g] \in Filled
      BY <1>3
    <3> QED BY <3>1, <3>2, Uncovered
  <2> HIDE DEF Over
  <2> QED BY <2>1 DEF SubtractInner
<1>6. Subtract(a, b) = SubtractLists(inner)[a][b]
  BY DEF Subtract, inner
<1>7. Subtract(a, b) \in ListsOf(Filled) /\ InOrder(Subtract(a, b))
  BY <1>1, <1>2, <1>4, <1>6, Levels, SubtractListsMeans
<1>8. ASSUME NEW x \in Int, NEW y \in Int
      PROVE  Covers(Subtract(a, b), x, y) <=> (Covers(a, x, y) /\ ~Covers(b, x, y))
  <2>1. SubtractInner(inner, Filled, Over(x))
    BY <1>5
  <2>2. In(Subtract(a, b), Over(x), y) <=> (In(a, Over(x), y) /\ ~In(b, Over(x), y))
    BY <1>1, <1>2, <1>4, <1>6, <2>1, Levels, SubtractListsMeans
  <2> QED BY <2>2 DEF Covers
<1> QED BY <1>7, <1>8, OrderlyIs

-----------------------------------------------------------------------------
(* Rectangles and lists of them. *)

InRect(r, x, y) == r.x <= x /\ x < r.x + r.w /\ r.y <= y /\ y < r.y + r.h

\* The pixels of the rectangles of a list, and no pixel is in two of them.
CoverOf(s) == UNION {Cells(r) : r \in ToSet(s)}
Apart(s)   == \A i, j \in DOMAIN s : i < j => Cells(s[i]) \cap Cells(s[j]) = {}

\* The pixels of a rectangle.
LEMMA CellsAre ==
  ASSUME NEW r \in [x : Int, y : Int, w : Int, h : Int]
  PROVE  /\ \A x, y \in Int : <<x, y>> \in Cells(r) <=> InRect(r, x, y)
         /\ \A p \in Cells(r) : \E x, y \in Int : p = <<x, y>>
<1>1. r.x \in Int /\ r.y \in Int /\ r.w \in Int /\ r.h \in Int
  OBVIOUS
<1>2. \A x, y \in Int : <<x, y>> \in Cells(r) <=> InRect(r, x, y)
  <2>1. ASSUME NEW x \in Int, NEW y \in Int PROVE <<x, y>> \in Cells(r) <=> InRect(r, x, y)
    <3>1. x \in r.x .. r.x + r.w - 1 <=> r.x <= x /\ x < r.x + r.w
      BY <1>1
    <3>2. y \in r.y .. r.y + r.h - 1 <=> r.y <= y /\ y < r.y + r.h
      BY <1>1
    <3>3. <<x, y>> \in Cells(r) <=> (x \in r.x .. r.x + r.w - 1 /\ y \in r.y .. r.y + r.h - 1)
      BY DEF Cells
    <3> QED BY <3>1, <3>2, <3>3 DEF InRect
  <2> QED BY <2>1
<1>3. \A p \in Cells(r) : \E x, y \in Int : p = <<x, y>>
  <2>1. (r.x .. r.x + r.w - 1) \subseteq Int /\ (r.y .. r.y + r.h - 1) \subseteq Int
    BY <1>1
  <2> QED BY <2>1 DEF Cells
<1> QED BY <1>2, <1>3

\* The pixels of two lists of rectangles in one.
LEMMA JoinCovers ==
  ASSUME NEW S, NEW a \in Seq(S), NEW b \in Seq(S)
  PROVE  /\ CoverOf(a \o b) = CoverOf(a) \cup CoverOf(b)
         /\ Apart(a) /\ Apart(b) /\ CoverOf(a) \cap CoverOf(b) = {} => Apart(a \o b)
<1>1. CoverOf(a \o b) = CoverOf(a) \cup CoverOf(b)
  BY JoinSet DEF CoverOf
<1>2. ASSUME Apart(a), Apart(b), CoverOf(a) \cap CoverOf(b) = {},
             NEW i \in DOMAIN (a \o b), NEW j \in DOMAIN (a \o b), i < j
      PROVE  Cells((a \o b)[i]) \cap Cells((a \o b)[j]) = {}
  <2> DEFINE m == Len(a)
             c == a \o b
  <2>1. /\ m \in Nat /\ Len(b) \in Nat /\ DOMAIN a = 1..m /\ DOMAIN b = 1..Len(b)
        /\ DOMAIN c = 1..(m + Len(b))
        /\ \A k \in DOMAIN a : c[k] = a[k]
        /\ \A k \in DOMAIN c : k \in DOMAIN a \/ (k > m /\ k - m \in DOMAIN b /\ c[k] = b[k - m])
    <3>1. \A k \in DOMAIN c : k \in DOMAIN a \/ (k > m /\ k - m \in DOMAIN b)
      BY Join
    <3>2. \A k \in DOMAIN c : k > m => c[k] = b[k - m]
      BY Join
    <3> HIDE DEF m, c
    <3> QED BY <3>1, <3>2, Join DEF m, c
  <2>2. i \in DOMAIN c /\ j \in DOMAIN c /\ i \in Nat /\ j \in Nat
    BY <1>2, <2>1
  <2> HIDE DEF m, c
  <2>3. CASE j \in DOMAIN a
    <3>1. i \in DOMAIN a
      BY <1>2, <2>1, <2>2, <2>3
    <3> QED BY <1>2, <2>1, <2>3, <3>1 DEF Apart, c
  <2>4. CASE j \notin DOMAIN a /\ i \in DOMAIN a
    <3>1. c[i] = a[i] /\ j - m \in DOMAIN b /\ c[j] = b[j - m]
      BY <2>1, <2>2, <2>4
    <3>2. c[i] \in ToSet(a) /\ c[j] \in ToSet(b)
      BY <2>4, <3>1 DEF ToSet
    <3> QED BY <1>2, <3>2 DEF CoverOf, c
  <2>5. CASE j \notin DOMAIN a /\ i \notin DOMAIN a
    <3>1. i - m \in DOMAIN b /\ c[i] = b[i - m] /\ j - m \in DOMAIN b /\ c[j] = b[j - m]
      BY <2>1, <2>2, <2>5
    <3>2. i - m < j - m
      BY <1>2, <2>1, <2>2
    <3> QED BY <1>2, <3>1, <3>2 DEF Apart, c
  <2> QED BY <2>3, <2>4, <2>5
<1>3. Apart(a) /\ Apart(b) /\ CoverOf(a) \cap CoverOf(b) = {} => Apart(a \o b)
  BY <1>2 DEF Apart
<1> QED BY <1>1, <1>3

\* Lists that are each apart, and apart from each other, make one that is.
LEMMA FlattenedApart ==
  ASSUME NEW S, NEW ss \in Seq(Seq(S)),
         \A i \in 1..Len(ss) : Apart(ss[i]),
         \A i, j \in 1..Len(ss) : i < j => CoverOf(ss[i]) \cap CoverOf(ss[j]) = {}
  PROVE  Apart(FlattenSeq(ss))
<1> DEFINE n == Len(ss)
<1>1. n \in Nat /\ \A i \in 1..n : ss[i] \in Seq(S)
  OBVIOUS
<1>2. CASE n = 0
  <2>1. ss = <<>>
    BY <1>2
  <2>2. FlattenSeq(ss) = <<>>
    BY <1>2, <2>1 DEF FlattenSeq
  <2>3. DOMAIN <<>> = {}
    OBVIOUS
  <2> QED BY <2>2, <2>3 DEF Apart
<1>3. CASE n > 0
  <2>1. PICK f : Flattens(S, ss, f)
    BY <1>3, Flattened
  <2> HIDE DEF n
  <2>2. /\ f \in [1..n -> Seq(S)] /\ f[1] = ss[1] /\ FlattenSeq(ss) = f[n]
        /\ \A i \in 2..n : f[i] = f[i - 1] \o ss[i]
    BY <2>1, Zenon DEF Flattens, n
  <2> DEFINE G == {i \in 1..n : /\ Apart(f[i])
                                /\ \A p \in CoverOf(f[i]) : \E j \in 1..i : p \in CoverOf(ss[j])}
  <2>3. 1 \in G
    <3>1. 1..1 = {1} /\ 1 \in 1..n
      BY <1>1, <1>3
    <3>2. Apart(ss[1])
      BY <3>1 DEF n
    <3> QED BY <2>2, <3>1, <3>2
  <2>4. ASSUME NEW i \in 1..n, i \in G, i < n PROVE i + 1 \in G
    <3> DEFINE k == i + 1
    <3>1. k \in 2..n /\ k - 1 = i /\ k \in 1..n /\ 1..k = (1..i) \cup {k} /\ \A j \in 1..i : j \in 1..n /\ j < k
      BY <1>1, <2>4
    <3> HIDE DEF k
    <3>2. f[k] = f[i] \o ss[k]
      BY <2>2, <3>1, Zenon
    <3>3. f[i] \in Seq(S) /\ ss[k] \in Seq(S)
      BY <1>1, <2>2, <3>1
    <3>4. Apart(f[i]) /\ \A p \in CoverOf(f[i]) : \E j \in 1..i : p \in CoverOf(ss[j])
      BY <2>4
    <3>5. Apart(ss[k]) /\ \A j \in 1..i : CoverOf(ss[j]) \cap CoverOf(ss[k]) = {}
      BY <3>1 DEF n
    <3>6. CoverOf(f[i]) \cap CoverOf(ss[k]) = {}
      BY <3>4, <3>5
    <3>7. Apart(f[k]) /\ CoverOf(f[k]) = CoverOf(f[i]) \cup CoverOf(ss[k])
      BY <3>2, <3>3, <3>4, <3>5, <3>6, JoinCovers
    <3>8. \A p \in CoverOf(f[k]) : \E j \in 1..k : p \in CoverOf(ss[j])
      BY <3>1, <3>4, <3>7
    <3>9. k \in G
      BY <3>1, <3>7, <3>8
    <3> QED BY <3>9 DEF k
  <2> HIDE DEF G
  <2>5. n \in G
    <3>1. 1..n \subseteq G
      BY <1>1, <2>3, <2>4, UpTo, Zenon
    <3> QED BY <1>1, <1>3, <3>1
  <2> QED BY <2>2, <2>5, Zenon DEF G
<1> QED BY <1>1, <1>2, <1>3

-----------------------------------------------------------------------------
(* The rectangles of a region. *)

RectOf(v, h) == [x |-> h.start, w |-> h.end - h.start, y |-> v.start, h |-> v.end - v.start]
RowOf(v)     == [j \in DOMAIN v.sub |-> RectOf(v, v.sub[j])]

\* The rectangle of a vertical span and a horizontal one.
LEMMA RectOfIs ==
  ASSUME NEW v \in SpanOf(Filled), NEW h \in SpanOf(None), v.start < v.end, h.start < h.end
  PROVE  /\ RectOf(v, h) \in Rectangle
         /\ RectOf(v, h) \in [x : Int, y : Int, w : Int, h : Int]
         /\ \A x, y \in Int : <<x, y>> \in Cells(RectOf(v, h)) <=>
               (v.start <= y /\ y < v.end /\ h.start <= x /\ x < h.end)
<1> DEFINE r == RectOf(v, h)
<1>1. v.start \in Int /\ v.end \in Int /\ h.start \in Int /\ h.end \in Int
  BY SpanTypes
<1>2. /\ h.end - h.start \in Nat \ {0} /\ v.end - v.start \in Nat \ {0}
      /\ h.end - h.start \in Int /\ v.end - v.start \in Int
      /\ h.start + (h.end - h.start) = h.end /\ v.start + (v.end - v.start) = v.end
  BY <1>1
<1>3. r.x = h.start /\ r.w = h.end - h.start /\ r.y = v.start /\ r.h = v.end - v.start
  BY DEF RectOf
<1>4. r \in Rectangle /\ r \in [x : Int, y : Int, w : Int, h : Int]
  BY <1>1, <1>2 DEF Rectangle, RectOf
<1> HIDE DEF r
<1>5. \A x, y \in Int : InRect(r, x, y) <=> (v.start <= y /\ y < v.end /\ h.start <= x /\ x < h.end)
  BY <1>2, <1>3 DEF InRect
<1>6. \A x, y \in Int : <<x, y>> \in Cells(r) <=> InRect(r, x, y)
  BY <1>4, CellsAre
<1> QED BY <1>4, <1>5, <1>6 DEF r

\* The rectangles of a vertical span: apart, and what the span covers.
LEMMA RowIs ==
  ASSUME NEW v, v \in SpanOf(Filled), v.start < v.end
  PROVE  /\ RowOf(v) \in Seq(Rectangle) /\ ToSet(RowOf(v)) = {RectOf(v, h) : h \in ToSet(v.sub)}
         /\ \A h \in ToSet(v.sub) : h \in SpanOf(None) /\ h.start < h.end
         /\ Apart(RowOf(v))
         /\ \A x, y \in Int : <<x, y>> \in CoverOf(RowOf(v)) <=> InSpan(v, Over(x), y)
<1> DEFINE l == v.sub
           r == RowOf(v)
<1>1. l \in ListsOf(None) /\ l # <<>> /\ InOrder(l) /\ l \in HLists
  BY SpanTypes, Levels DEF Filled
<1>2. Len(l) \in Nat /\ DOMAIN l = 1..Len(l) /\ \A i \in DOMAIN l : l[i] \in SpanOf(None)
  BY <1>1 DEF ListsOf
<1>3. DOMAIN r = DOMAIN l /\ \A i \in DOMAIN l : r[i] = RectOf(v, l[i])
  BY DEF RowOf
<1>4. \A h \in ToSet(l) : h \in SpanOf(None) /\ h.start < h.end
  BY <1>1, <1>2 DEF ToSet, InOrder
<1> HIDE DEF l, r
<1>5. \A i \in DOMAIN l : l[i] \in ToSet(l) /\ r[i] \in Rectangle
  <2>1. ASSUME NEW i \in DOMAIN l PROVE l[i] \in ToSet(l) /\ r[i] \in Rectangle
    <3>1. l[i] \in ToSet(l) /\ l[i] \in SpanOf(None) /\ l[i].start < l[i].end
      BY <1>4 DEF ToSet
    <3> QED BY <1>3, <3>1, RectOfIs
  <2> QED BY <2>1
<1>6. r \in Seq(Rectangle)
  <2>1. r = [i \in 1..Len(l) |-> RectOf(v, l[i])]
    BY <1>2 DEF r, l, RowOf
  <2> QED BY <1>2, <1>3, <1>5, <2>1
<1>7. ToSet(r) = {RectOf(v, h) : h \in ToSet(l)}
  BY <1>3 DEF ToSet
<1>8. ASSUME NEW i \in DOMAIN r, NEW j \in DOMAIN r, i < j
      PROVE  Cells(r[i]) \cap Cells(r[j]) = {}
  <2> DEFINE g == l[i]
             h == l[j]
  <2>1. /\ g \in SpanOf(None) /\ g.start < g.end /\ h \in SpanOf(None) /\ h.start < h.end
        /\ r[i] = RectOf(v, g) /\ r[j] = RectOf(v, h)
    BY <1>3, <1>4, <1>5
  <2>2. g.end <= h.start
    BY <1>1, <1>2, <1>3, <1>8 DEF InOrder, l
  <2> HIDE DEF g, h
  <2>3. g.end \in Int /\ h.start \in Int
    BY <2>1, SpanTypes
  <2>4. ASSUME NEW p \in Cells(r[i]), p \in Cells(r[j]) PROVE FALSE
    <3>1. PICK x, y \in Int : p = <<x, y>>
      BY <2>1, RectOfIs, CellsAre
    <3>2. x < g.end
      BY <2>1, <2>4, <3>1, RectOfIs
    <3>3. h.start <= x
      BY <2>1, <2>4, <3>1, RectOfIs
    <3> QED BY <2>2, <2>3, <3>2, <3>3
  <2> QED BY <2>4
<1>9. Apart(r)
  BY <1>8 DEF Apart
<1>10. ASSUME NEW x \in Int, NEW y \in Int
       PROVE  <<x, y>> \in CoverOf(r) <=> InSpan(v, Over(x), y)
  <2>1. ASSUME NEW h \in ToSet(l)
        PROVE  <<x, y>> \in Cells(RectOf(v, h)) <=>
                  (v.start <= y /\ y < v.end /\ h.start <= x /\ x < h.end)
    BY <1>4, <2>1, RectOfIs
  <2>2. \A h \in ToSet(l) : h.sub \in None
    BY <1>4, SpanTypes
  <2>3. In(l, None, x) <=> \E h \in ToSet(l) : h.start <= x /\ x < h.end
    BY <2>2 DEF In, InSpan
  <2>4. InSpan(v, Over(x), y) <=> (v.start <= y /\ y < v.end /\ In(l, None, x))
    BY <1>1 DEF InSpan, Over, l
  <2>5. <<x, y>> \in CoverOf(r) <=> \E h \in ToSet(l) : <<x, y>> \in Cells(RectOf(v, h))
    BY <1>7 DEF CoverOf
  <2> QED BY <2>1, <2>3, <2>4, <2>5
<1> QED BY <1>4, <1>6, <1>7, <1>9, <1>10 DEF r, l

\* The rectangles that the iterator gives out are apart, have some extent, and
\* are what the region covers.
LEMMA RectsAre ==
  ASSUME NEW region, Orderly(region)
  PROVE  /\ Rects(region) \in Seq(Rectangle) /\ Apart(Rects(region))
         /\ ToSet(Rects(region)) = UNION {ToSet(RowOf(v)) : v \in ToSet(region)}
         /\ \A x, y \in Int : <<x, y>> \in Pixels(region) <=> Covers(region, x, y)
         /\ \A p \in Pixels(region) : \E x, y \in Int : p = <<x, y>>
<1> DEFINE n == Len(region)
           ss == [i \in DOMAIN region |-> RowOf(region[i])]
<1>1. region \in ListsOf(Filled) /\ InOrder(region)
  BY OrderlyIs
<1>2. n \in Nat /\ DOMAIN region = 1..n /\ \A i \in 1..n : region[i] \in SpanOf(Filled)
  BY <1>1 DEF ListsOf
<1>3. Rects(region) = FlattenSeq(ss)
  BY DEF Rects, RowOf, RectOf
<1>4. /\ \A i \in 1..n : region[i] \in ToSet(region) /\ region[i].start < region[i].end
      /\ \A i, j \in 1..n : i < j => region[i].end <= region[j].start
  BY <1>1, <1>2 DEF InOrder, ToSet
<1>5. ss = [i \in 1..n |-> RowOf(region[i])] /\ \A i \in 1..n : ss[i] = RowOf(region[i])
  BY <1>2
<1> HIDE DEF n, ss
<1>6. ASSUME NEW i \in 1..n
      PROVE  /\ ss[i] \in Seq(Rectangle) /\ Apart(ss[i])
             /\ \A x, y \in Int : <<x, y>> \in CoverOf(ss[i]) <=> InSpan(region[i], Over(x), y)
  <2> DEFINE v == region[i]
  <2>1. v \in SpanOf(Filled) /\ v.start < v.end /\ ss[i] = RowOf(v)
    BY <1>2, <1>4, <1>5
  <2> HIDE DEF v
  <2> QED BY <2>1, RowIs DEF v
<1>7. ss \in Seq(Seq(Rectangle)) /\ Len(ss) = n
  BY <1>2, <1>5, <1>6
<1>8. /\ FlattenSeq(ss) \in Seq(Rectangle)
      /\ ToSet(FlattenSeq(ss)) = UNION {ToSet(ss[i]) : i \in 1..n}
  BY <1>7, FlattenedSet
<1>9. \A r \in Rectangle : r \in [x : Int, y : Int, w : Int, h : Int]
  BY DEF Rectangle
<1>10. ASSUME NEW s, s \in Seq(Rectangle), NEW p \in CoverOf(s) PROVE \E x, y \in Int : p = <<x, y>>
  <2>1. PICK r \in ToSet(s) : p \in Cells(r)
    BY DEF CoverOf
  <2>2. r \in Rectangle
    BY <1>10 DEF ToSet
  <2> QED BY <1>9, <2>1, <2>2, CellsAre
<1>11. ASSUME NEW i \in 1..n, NEW j \in 1..n, i < j PROVE CoverOf(ss[i]) \cap CoverOf(ss[j]) = {}
  <2>1. ASSUME NEW p \in CoverOf(ss[i]), p \in CoverOf(ss[j]) PROVE FALSE
    <3>1. PICK x, y \in Int : p = <<x, y>>
      BY <1>6, <1>10
    <3>2. InSpan(region[i], Over(x), y) /\ InSpan(region[j], Over(x), y)
      BY <1>6, <2>1, <3>1
    <3>3. region[i].end \in Int /\ region[j].start \in Int /\ region[i].end <= region[j].start
      BY <1>2, <1>4, <1>11, SpanTypes
    <3>4. y < region[i].end /\ region[j].start <= y
      BY <3>2 DEF InSpan
    <3> QED BY <3>3, <3>4
  <2> QED BY <2>1
<1>12. Apart(FlattenSeq(ss))
  BY <1>6, <1>7, <1>11, FlattenedApart
<1>13. ToSet(region) = {region[i] : i \in 1..n}
  BY <1>2 DEF ToSet
<1>14. ToSet(Rects(region)) = UNION {ToSet(RowOf(v)) : v \in ToSet(region)}
  BY <1>3, <1>5, <1>8, <1>13
<1>15. Pixels(region) = CoverOf(FlattenSeq(ss))
  BY <1>3 DEF Pixels, CoverOf
<1>16. ASSUME NEW x \in Int, NEW y \in Int PROVE <<x, y>> \in Pixels(region) <=> Covers(region, x, y)
  <2>1. <<x, y>> \in Pixels(region) <=> \E i \in 1..n : <<x, y>> \in CoverOf(ss[i])
    BY <1>8, <1>15 DEF CoverOf
  <2>2. Covers(region, x, y) <=> \E i \in 1..n : InSpan(region[i], Over(x), y)
    BY <1>13 DEF Covers, In
  <2> QED BY <1>6, <2>1, <2>2
<1>17. \A p \in Pixels(region) : \E x, y \in Int : p = <<x, y>>
  BY <1>8, <1>10, <1>15
<1> QED BY <1>3, <1>8, <1>12, <1>14, <1>16, <1>17

-----------------------------------------------------------------------------
(* What the operations of the library mean in pixels. *)

\* sraRgnOr: the region afterwards covers what either did, and its lists are in
\* order and apart, whatever lists of spans the two regions were.
THEOREM OrIsUnion ==
  ASSUME NEW a, NEW b, Orderly(a), Orderly(b)
  PROVE  Orderly(Or(a, b)) /\ Pixels(Or(a, b)) = Pixels(a) \cup Pixels(b)
<1>1. Orderly(Or(a, b)) /\ \A x, y \in Int : Covers(Or(a, b), x, y) <=> (Covers(a, x, y) \/ Covers(b, x, y))
  BY OrCovers
<1> DEFINE c == Or(a, b)
<1> HIDE DEF c
<1>2. Orderly(c) /\ \A x, y \in Int : Covers(c, x, y) <=> (Covers(a, x, y) \/ Covers(b, x, y))
  BY <1>1 DEF c
<1>3. ASSUME NEW x \in Int, NEW y \in Int
      PROVE  <<x, y>> \in Pixels(c) <=> (<<x, y>> \in Pixels(a) \/ <<x, y>> \in Pixels(b))
  <2>1. (<<x, y>> \in Pixels(a) <=> Covers(a, x, y)) /\ (<<x, y>> \in Pixels(b) <=> Covers(b, x, y))
    BY RectsAre
  <2>2. <<x, y>> \in Pixels(c) <=> Covers(c, x, y)
    BY <1>2, RectsAre
  <2> QED BY <1>2, <2>1, <2>2
<1>4. /\ \A p \in Pixels(a) : \E x, y \in Int : p = <<x, y>>
      /\ \A p \in Pixels(b) : \E x, y \in Int : p = <<x, y>>
  BY RectsAre
<1>5. \A p \in Pixels(c) : \E x, y \in Int : p = <<x, y>>
  BY <1>2, RectsAre
<1>6. Pixels(c) = Pixels(a) \cup Pixels(b)
  BY <1>3, <1>4, <1>5
<1> QED BY <1>2, <1>6 DEF c

\* sraRgnAnd: what both covered.
THEOREM AndIsIntersection ==
  ASSUME NEW a, NEW b, Orderly(a), Orderly(b)
  PROVE  Orderly(And(a, b)) /\ Pixels(And(a, b)) = Pixels(a) \cap Pixels(b)
<1>1. Orderly(And(a, b)) /\ \A x, y \in Int : Covers(And(a, b), x, y) <=> (Covers(a, x, y) /\ Covers(b, x, y))
  BY AndCovers
<1> DEFINE c == And(a, b)
<1> HIDE DEF c
<1>2. Orderly(c) /\ \A x, y \in Int : Covers(c, x, y) <=> (Covers(a, x, y) /\ Covers(b, x, y))
  BY <1>1 DEF c
<1>3. ASSUME NEW x \in Int, NEW y \in Int
      PROVE  <<x, y>> \in Pixels(c) <=> (<<x, y>> \in Pixels(a) /\ <<x, y>> \in Pixels(b))
  <2>1. (<<x, y>> \in Pixels(a) <=> Covers(a, x, y)) /\ (<<x, y>> \in Pixels(b) <=> Covers(b, x, y))
    BY RectsAre
  <2>2. <<x, y>> \in Pixels(c) <=> Covers(c, x, y)
    BY <1>2, RectsAre
  <2> QED BY <1>2, <2>1, <2>2
<1>4. \A p \in Pixels(a) : \E x, y \in Int : p = <<x, y>>
  BY RectsAre
<1>5. \A p \in Pixels(c) : \E x, y \in Int : p = <<x, y>>
  BY <1>2, RectsAre
<1>6. Pixels(c) = Pixels(a) \cap Pixels(b)
  BY <1>3, <1>4, <1>5
<1> QED BY <1>2, <1>6 DEF c

\* sraRgnSubtract: what the first covered and the second did not.
THEOREM SubtractIsDifference ==
  ASSUME NEW a, NEW b, Orderly(a), Orderly(b)
  PROVE  Orderly(Subtract(a, b)) /\ Pixels(Subtract(a, b)) = Pixels(a) \ Pixels(b)
<1>1. Orderly(Subtract(a, b)) /\ \A x, y \in Int : Covers(Subtract(a, b), x, y) <=> (Covers(a, x, y) /\ ~Covers(b, x, y))
  BY SubtractCovers
<1> DEFINE c == Subtract(a, b)
<1> HIDE DEF c
<1>2. Orderly(c) /\ \A x, y \in Int : Covers(c, x, y) <=> (Covers(a, x, y) /\ ~Covers(b, x, y))
  BY <1>1 DEF c
<1>3. ASSUME NEW x \in Int, NEW y \in Int
      PROVE  <<x, y>> \in Pixels(c) <=> (<<x, y>> \in Pixels(a) /\ <<x, y>> \notin Pixels(b))
  <2>1. (<<x, y>> \in Pixels(a) <=> Covers(a, x, y)) /\ (<<x, y>> \in Pixels(b) <=> Covers(b, x, y))
    BY RectsAre
  <2>2. <<x, y>> \in Pixels(c) <=> Covers(c, x, y)
    BY <1>2, RectsAre
  <2> QED BY <1>2, <2>1, <2>2
<1>4. \A p \in Pixels(a) : \E x, y \in Int : p = <<x, y>>
  BY RectsAre
<1>5. \A p \in Pixels(c) : \E x, y \in Int : p = <<x, y>>
  BY <1>2, RectsAre
<1>6. Pixels(c) = Pixels(a) \ Pixels(b)
  BY <1>3, <1>4, <1>5
<1> QED BY <1>2, <1>6 DEF c

\* sraRgnCreate: no region but the empty one covers nothing.
LEMMA EmptyIs ==
  /\ Orderly(Empty) /\ Pixels(Empty) = {}
  /\ \A region : Orderly(region) /\ Pixels(region) = {} => region = Empty
<1>1. Orderly(Empty)
  <2>1. Empty \in ListsOf(Filled) /\ InOrder(Empty)
    BY ListNone DEF Empty
  <2> QED BY <2>1, OrderlyIs
<1>2. Pixels(Empty) = {}
  <2>1. \A x, y \in Int : ~Covers(Empty, x, y)
    BY ListNone DEF Covers, Empty
  <2> QED BY <1>1, <2>1, RectsAre
<1>3. ASSUME NEW region, Orderly(region), region # Empty PROVE Pixels(region) # {}
  <2> DEFINE v == Head(region)
             t == Tail(region)
  <2>1. region \in ListsOf(Filled) /\ InOrder(region) /\ region # <<>>
    BY <1>3, OrderlyIs DEF Empty
  <2>2. v \in SpanOf(Filled) /\ t \in ListsOf(Filled) /\ region = <<v>> \o t
    BY <2>1, ListHead
  <2> HIDE DEF v, t
  <2>3. v.start < v.end
    BY <2>1, <2>2, OrderFirst
  <2>4. v.start \in Int /\ v.end \in Int /\ v.sub \in Filled
    BY <2>2, SpanTypes
  <2>5. PICK x \in Int : v.sub \in Over(x)
    BY <2>4, Covered
  <2>6. InSpan(v, Over(x), v.start)
    BY <2>3, <2>4, <2>5 DEF InSpan
  <2>7. In(region, Over(x), v.start)
    BY <2>2, <2>6, ListPrepend
  <2>8. Covers(region, x, v.start)
    BY <2>7 DEF Covers
  <2> QED BY <1>3, <2>4, <2>8, RectsAre
<1> QED BY <1>1, <1>2, <1>3

\* sraRgnCreateRect, for a rectangle of some extent.
THEOREM CreateRectIs ==
  ASSUME NEW r \in Rectangle
  PROVE  Orderly(CreateRect(r)) /\ Pixels(CreateRect(r)) = Cells(r)
<1> DEFINE h == Span(r.x, r.x + r.w, <<>>)
           v == Span(r.y, r.y + r.h, <<h>>)
           c == CreateRect(r)
<1>1. /\ r.x \in Int /\ r.y \in Int /\ r.w \in Nat /\ r.h \in Nat /\ r.w > 0 /\ r.h > 0
      /\ r \in [x : Int, y : Int, w : Int, h : Int]
  BY DEF Rectangle
<1>2. r.x + r.w \in Int /\ r.y + r.h \in Int /\ r.x < r.x + r.w /\ r.y < r.y + r.h
  BY <1>1
<1>3. /\ h \in SpanOf(None) /\ h.start = r.x /\ h.end = r.x + r.w /\ h.sub \in None
  BY <1>1, <1>2 DEF Span, SpanOf, None
<1>4. v.start = r.y /\ v.end = r.y + r.h /\ v.sub = <<h>> /\ c = <<v>>
  BY DEF Span, CreateRect
<1>5. v = [start |-> r.y, end |-> r.y + r.h, sub |-> <<h>>]
  BY DEF Span
<1> HIDE DEF h, v, c
<1>6. <<h>> \in ListsOf(None) /\ <<h>> # <<>> /\ InOrder(<<h>>)
  BY <1>2, <1>3, ListOne
<1>7. <<h>> \in Filled /\ <<h>> \in HLists
  BY <1>6, Levels DEF Filled
<1>8. v \in SpanOf(Filled)
  BY <1>2, <1>1, <1>5, <1>7 DEF SpanOf
<1>9. <<v>> \in ListsOf(Filled) /\ InOrder(<<v>>)
  BY <1>2, <1>4, <1>8, ListOne
<1>10. Orderly(c)
  BY <1>4, <1>9, OrderlyIs
<1>11. ASSUME NEW x \in Int, NEW y \in Int PROVE <<x, y>> \in Pixels(c) <=> <<x, y>> \in Cells(r)
  <2>1. In(<<h>>, None, x) <=> InSpan(h, None, x)
    BY <1>3, ListOne
  <2>2. In(<<v>>, Over(x), y) <=> InSpan(v, Over(x), y)
    BY <1>8, ListOne
  <2>3. <<h>> \in Over(x) <=> (r.x <= x /\ x < r.x + r.w)
    BY <1>3, <1>7, <2>1 DEF Over, InSpan
  <2>4. InSpan(v, Over(x), y) <=> (r.y <= y /\ y < r.y + r.h /\ <<h>> \in Over(x))
    BY <1>4 DEF InSpan
  <2>5. <<x, y>> \in Pixels(c) <=> Covers(c, x, y)
    BY <1>10, RectsAre
  <2>6. <<x, y>> \in Cells(r) <=> InRect(r, x, y)
    BY <1>1, CellsAre
  <2> QED BY <1>4, <2>2, <2>3, <2>4, <2>5, <2>6 DEF Covers, InRect
<1>12. /\ \A p \in Pixels(c) : \E x, y \in Int : p = <<x, y>>
       /\ \A p \in Cells(r) : \E x, y \in Int : p = <<x, y>>
  BY <1>1, <1>10, RectsAre, CellsAre
<1>13. Pixels(c) = Cells(r)
  BY <1>11, <1>12
<1> QED BY <1>10, <1>13 DEF c

-----------------------------------------------------------------------------
(* The bounding box. *)

\* Min of numbers that have a lower bound.
LEMMA MinIs ==
  ASSUME NEW T, T \subseteq Int, T # {}, NEW lo \in Int, \A t \in T : lo <= t
  PROVE  Min(T) \in T /\ \A t \in T : Min(T) <= t
<1> DEFINE N == {t - lo : t \in T}
<1>1. \A t \in T : t \in Int /\ t - lo \in Nat
  OBVIOUS
<1>2. N \in SUBSET Nat /\ N # {}
  BY <1>1
<1>3. PICK n \in N : \A k \in N : n <= k
  BY <1>2, Least
<1>4. PICK m \in T : n = m - lo
  BY <1>3
<1>5. \A t \in T : m - lo <= t - lo
  BY <1>3, <1>4
<1>6. \A t \in T : m <= t
  BY <1>1, <1>5
<1> QED BY <1>6 DEF Min

\* Max of numbers that have an upper bound.
LEMMA MaxIs ==
  ASSUME NEW T, T \subseteq Int, T # {}, NEW hi \in Int, \A t \in T : t <= hi
  PROVE  Max(T) \in T /\ \A t \in T : t <= Max(T)
<1> DEFINE N == {hi - t : t \in T}
<1>1. \A t \in T : t \in Int /\ hi - t \in Nat
  OBVIOUS
<1>2. N \in SUBSET Nat /\ N # {}
  BY <1>1
<1>3. PICK n \in N : \A k \in N : n <= k
  BY <1>2, Least
<1>4. PICK m \in T : n = hi - m
  BY <1>3
<1>5. \A t \in T : hi - m <= hi - t
  BY <1>3, <1>4
<1>6. \A t \in T : m >= t
  BY <1>1, <1>5
<1>7. Max(T) \in T /\ \A t \in T : Max(T) >= t
  BY <1>6 DEF Max
<1> QED BY <1>1, <1>7

\* Every span of a region within r is within the sides of r.
LEMMA SpansWithin ==
  ASSUME NEW region, Orderly(region), NEW r \in Rectangle, Pixels(region) \subseteq Cells(r)
  PROVE  \A v \in ToSet(region) :
            /\ v \in SpanOf(Filled) /\ v.start < v.end
            /\ r.y <= v.start /\ v.end <= r.y + r.h
            /\ \A h \in ToSet(v.sub) : /\ h \in SpanOf(None) /\ h.start < h.end
                                       /\ r.x <= h.start /\ h.end <= r.x + r.w
<1>1. region \in ListsOf(Filled) /\ InOrder(region)
  BY OrderlyIs
<1>2. \A v \in ToSet(region) : v \in SpanOf(Filled) /\ v.start < v.end
  BY <1>1 DEF ToSet, InOrder, ListsOf
<1>3. r.x \in Int /\ r.y \in Int /\ r.w \in Int /\ r.h \in Int /\ r \in [x : Int, y : Int, w : Int, h : Int]
  BY DEF Rectangle
<1>4. ASSUME NEW v \in ToSet(region), NEW h \in ToSet(v.sub)
      PROVE  /\ h \in SpanOf(None) /\ h.start < h.end
             /\ r.y <= v.start /\ v.end <= r.y + r.h /\ r.x <= h.start /\ h.end <= r.x + r.w
  <2>1. v \in SpanOf(Filled) /\ v.start < v.end
    BY <1>2
  <2>2. h \in SpanOf(None) /\ h.start < h.end /\ RectOf(v, h) \in ToSet(RowOf(v))
    BY <2>1, RowIs
  <2>3. v.start \in Int /\ v.end \in Int /\ h.start \in Int /\ h.end \in Int
    BY <2>1, <2>2, SpanTypes
  <2>4. RectOf(v, h) \in ToSet(Rects(region))
    BY <2>2, RectsAre
  <2>5. Cells(RectOf(v, h)) \subseteq Cells(r)
    BY <2>4 DEF Pixels
  <2> DEFINE x1 == h.start
             y1 == v.start
             x2 == h.end - 1
             y2 == v.end - 1
  <2>6. /\ x1 \in Int /\ y1 \in Int /\ x2 \in Int /\ y2 \in Int
        /\ v.start <= y1 /\ y1 < v.end /\ h.start <= x1 /\ x1 < h.end
        /\ v.start <= y2 /\ y2 < v.end /\ h.start <= x2 /\ x2 < h.end
    BY <2>1, <2>2, <2>3
  <2> HIDE DEF x1, y1, x2, y2
  <2>7. <<x1, y1>> \in Cells(r) /\ <<x2, y2>> \in Cells(r)
    BY <2>1, <2>2, <2>5, <2>6, RectOfIs
  <2>8. InRect(r, x1, y1) /\ InRect(r, x2, y2)
    BY <1>3, <2>6, <2>7, CellsAre
  <2>9. r.y <= v.start /\ v.end <= r.y + r.h /\ r.x <= h.start /\ h.end <= r.x + r.w
    BY <1>3, <2>3, <2>8 DEF InRect, x1, y1, x2, y2
  <2> QED BY <2>2, <2>9
<1>5. ASSUME NEW v \in ToSet(region) PROVE \E h : h \in ToSet(v.sub)
  <2>1. v.sub \in ListsOf(None) /\ v.sub # <<>>
    <3>1. v.sub \in Filled
      BY <1>2, SpanTypes
    <3> QED BY <3>1, Levels DEF Filled
  <2>2. v.sub[1] \in ToSet(v.sub)
    BY <2>1 DEF ListsOf, ToSet
  <2> QED BY <2>2
<1> QED BY <1>2, <1>4, <1>5

\* sraRgnBBox.
BoxAround(region, r, b) ==
    /\ b \in Rectangle /\ BBox(region) = CreateRect(b)
    /\ Pixels(region) \subseteq Cells(b) /\ Cells(b) \subseteq Cells(r)

\* sraRgnBBox is one rectangle around all that the region covers, within any
\* other that is.
LEMMA BBoxIs ==
  ASSUME NEW region, Orderly(region), region # Empty, NEW r \in Rectangle, Pixels(region) \subseteq Cells(r)
  PROVE  \E b : BoxAround(region, r, b)
<1> DEFINE V == ToSet(region)
           H == UNION {ToSet(v.sub) : v \in V}
           left   == Min({h.start : h \in H})
           right  == Max({h.end : h \in H})
           top    == Min({v.start : v \in V})
           bottom == Max({v.end : v \in V})
           b == [x |-> left, y |-> top, w |-> right - left, h |-> bottom - top]
<1>1. r.x \in Int /\ r.y \in Int /\ r.w \in Int /\ r.h \in Int /\ r \in [x : Int, y : Int, w : Int, h : Int]
  BY DEF Rectangle
<1>2. /\ \A v \in V : /\ v \in SpanOf(Filled) /\ v.start < v.end
                      /\ r.y <= v.start /\ v.end <= r.y + r.h
      /\ \A h \in H : /\ h \in SpanOf(None) /\ h.start < h.end
                      /\ r.x <= h.start /\ h.end <= r.x + r.w
  BY SpansWithin
<1>3. V # {} /\ H # {}
  <2>1. region \in ListsOf(Filled) /\ region # <<>>
    BY OrderlyIs DEF Empty
  <2>2. region[1] \in V
    BY <2>1 DEF ListsOf, ToSet
  <2>3. region[1].sub \in ListsOf(None) /\ region[1].sub # <<>>
    <3>1. region[1] \in SpanOf(Filled)
      BY <1>2, <2>2
    <3>2. region[1].sub \in Filled
      BY <3>1, SpanTypes
    <3> QED BY <3>2, Levels DEF Filled
  <2>4. region[1].sub[1] \in ToSet(region[1].sub)
    BY <2>3 DEF ListsOf, ToSet
  <2> QED BY <2>2, <2>4
<1>4. \A v \in V : v.start \in Int /\ v.end \in Int
  BY <1>2, SpanTypes
<1>5. \A h \in H : h.start \in Int /\ h.end \in Int
  BY <1>2, SpanTypes
<1>6. BBox(region) = CreateRect(b)
  BY DEF BBox
<1> HIDE DEF V, H
<1>7. left \in Int /\ r.x <= left /\ \A h \in H : left <= h.start
  <2> DEFINE T == {h.start : h \in H}
  <2>1. T \subseteq Int /\ T # {} /\ (\A t \in T : r.x <= t) /\ \A h \in H : h.start \in T
    BY <1>2, <1>3, <1>5
  <2> HIDE DEF T
  <2>2. Min(T) \in T /\ \A t \in T : Min(T) <= t
    BY <1>1, <2>1, MinIs
  <2>3. Min(T) \in Int /\ r.x <= Min(T) /\ \A h \in H : Min(T) <= h.start
    BY <2>1, <2>2
  <2> QED BY <2>3, Zenon DEF T
<1>8. top \in Int /\ r.y <= top /\ \A v \in V : top <= v.start
  <2> DEFINE T == {v.start : v \in V}
  <2>1. T \subseteq Int /\ T # {} /\ (\A t \in T : r.y <= t) /\ \A v \in V : v.start \in T
    BY <1>2, <1>3, <1>4
  <2> HIDE DEF T
  <2>2. Min(T) \in T /\ \A t \in T : Min(T) <= t
    BY <1>1, <2>1, MinIs
  <2>3. Min(T) \in Int /\ r.y <= Min(T) /\ \A v \in V : Min(T) <= v.start
    BY <2>1, <2>2
  <2> QED BY <2>3, Zenon DEF T
<1>9. right \in Int /\ right <= r.x + r.w /\ \A h \in H : h.end <= right
  <2> DEFINE T == {h.end : h \in H}
  <2>1. T \subseteq Int /\ T # {} /\ (\A t \in T : t <= r.x + r.w) /\ (\A h \in H : h.end \in T) /\ r.x + r.w \in Int
    BY <1>1, <1>2, <1>3, <1>5
  <2> HIDE DEF T
  <2>2. Max(T) \in T /\ \A t \in T : t <= Max(T)
    BY <2>1, MaxIs
  <2>3. Max(T) \in Int /\ Max(T) <= r.x + r.w /\ \A h \in H : h.end <= Max(T)
    BY <2>1, <2>2
  <2> QED BY <2>3, Zenon DEF T
<1>10. bottom \in Int /\ bottom <= r.y + r.h /\ \A v \in V : v.end <= bottom
  <2> DEFINE T == {v.end : v \in V}
  <2>1. T \subseteq Int /\ T # {} /\ (\A t \in T : t <= r.y + r.h) /\ (\A v \in V : v.end \in T) /\ r.y + r.h \in Int
    BY <1>1, <1>2, <1>3, <1>4
  <2> HIDE DEF T
  <2>2. Max(T) \in T /\ \A t \in T : t <= Max(T)
    BY <2>1, MaxIs
  <2>3. Max(T) \in Int /\ Max(T) <= r.y + r.h /\ \A v \in V : v.end <= Max(T)
    BY <2>1, <2>2
  <2> QED BY <2>3, Zenon DEF T
<1> HIDE DEF left, right, top, bottom
<1>11. left < right /\ top < bottom
  <2>1. PICK h \in H, v \in V : TRUE
    BY <1>3
  <2> QED BY <1>2, <1>4, <1>5, <1>7, <1>8, <1>9, <1>10
<1>12. /\ right - left \in Nat \ {0} /\ bottom - top \in Nat \ {0}
       /\ left + (right - left) = right /\ top + (bottom - top) = bottom
       /\ right - left \in Int /\ bottom - top \in Int
  BY <1>7, <1>8, <1>9, <1>10, <1>11
<1>13. b \in Rectangle /\ b \in [x : Int, y : Int, w : Int, h : Int]
  BY <1>7, <1>8, <1>12 DEF Rectangle
<1>14. b.x = left /\ b.y = top /\ b.w = right - left /\ b.h = bottom - top
  OBVIOUS
<1> HIDE DEF b
<1>15. \A x, y \in Int : <<x, y>> \in Cells(b) <=> (left <= x /\ x < right /\ top <= y /\ y < bottom)
  <2>1. \A x, y \in Int : <<x, y>> \in Cells(b) <=> InRect(b, x, y)
    BY <1>13, CellsAre
  <2> QED BY <1>12, <1>14, <2>1 DEF InRect
<1>16. Cells(b) \subseteq Cells(r)
  <2>1. ASSUME NEW p \in Cells(b) PROVE p \in Cells(r)
    <3>1. PICK x, y \in Int : p = <<x, y>>
      BY <1>13, CellsAre
    <3>2. left <= x /\ x < right /\ top <= y /\ y < bottom
      BY <1>15, <2>1, <3>1
    <3>3. InRect(r, x, y)
      BY <1>1, <1>7, <1>8, <1>9, <1>10, <3>2 DEF InRect
    <3> QED BY <1>1, <3>1, <3>3, CellsAre
  <2> QED BY <2>1
<1>17. Pixels(region) \subseteq Cells(b)
  <2>1. ASSUME NEW p \in Pixels(region) PROVE p \in Cells(b)
    <3>1. PICK x, y \in Int : p = <<x, y>>
      BY RectsAre
    <3>2. Covers(region, x, y)
      BY <2>1, <3>1, RectsAre
    <3>3. PICK v \in V : v.start <= y /\ y < v.end /\ v.sub \in Over(x)
      BY <3>2 DEF Covers, In, InSpan, V
    <3>4. PICK h \in ToSet(v.sub) : h.start <= x /\ x < h.end
      BY <3>3 DEF Over, In, InSpan
    <3>5. h \in H
      BY DEF H
    <3>6. left <= x /\ x < right /\ top <= y /\ y < bottom
      BY <1>4, <1>5, <1>7, <1>8, <1>9, <1>10, <3>3, <3>4, <3>5
    <3> QED BY <1>15, <3>1, <3>6
  <2> QED BY <2>1
<1> QED BY <1>6, <1>13, <1>16, <1>17 DEF BoxAround
====
