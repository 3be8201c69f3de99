---------------------------- MODULE UpdatesProofs ----------------------------
(***************************************************************************)
(* An update is what Delivery promises, and its header is right, for every *)
(* screen, every encoding with sizes as the encoders assume them, and      *)
(* every picture on the screen: the pieces of a rectangle tile it, those   *)
(* of a region cover it, and what is sent together with what remains       *)
(* covers what was modified.                                               *)
(***************************************************************************)
EXTENDS Updates, RegionProofs

-----------------------------------------------------------------------------
(* Division. *)

\* What a / m leaves.
LEMMA Quotient ==
  ASSUME NEW a \in Nat, NEW m \in Nat \ {0}
  PROVE  a \div m \in Nat /\ m * (a \div m) <= a /\ a < m * (a \div m) + m
OBVIOUS

\* Multiples are ordered as their factors.
LEMMA Multiple ==
  ASSUME NEW m \in Nat, NEW p \in Int, NEW q \in Int, p <= q
  PROVE  m * p <= m * q /\ m * p \in Int /\ m * q \in Int
OBVIOUS

\* No other number leaves that.
LEMMA QuotientIs ==
  ASSUME NEW a \in Nat, NEW m \in Nat \ {0}, NEW q \in Int, m * q <= a, a < m * q + m
  PROVE  a \div m = q
<1> DEFINE p == a \div m
<1>1. p \in Nat /\ m * p <= a /\ a < m * p + m
  BY Quotient
<1> HIDE DEF p
<1>2. CASE p < q
  <2>1. p + 1 <= q /\ p + 1 \in Int
    BY <1>1, <1>2
  <2>2. m * (p + 1) <= m * q
    BY <2>1, Multiple
  <2>3. m * (p + 1) = m * p + m
    BY <1>1
  <2> QED BY <1>1, <2>2, <2>3
<1>3. CASE q < p
  <2>1. q + 1 <= p /\ q + 1 \in Int
    BY <1>1, <1>3
  <2>2. m * (q + 1) <= m * p
    BY <1>1, <2>1, Multiple
  <2>3. m * (q + 1) = m * q + m
    OBVIOUS
  <2> QED BY <1>1, <2>2, <2>3
<1> QED BY <1>1, <1>2, <1>3 DEF p

\* The pieces of m that a length of n has.
LEMMA TimesAre ==
  ASSUME NEW n \in Nat \ {0}, NEW m \in Nat \ {0}
  PROVE  /\ Times(n, m) \in Nat \ {0}
         /\ (Times(n, m) - 1) * m < n /\ n <= Times(n, m) * m
         /\ (n <= m => Times(n, m) = 1)
         /\ (n > m => Times(n, m) = 1 + Times(n - m, m))
<1> DEFINE q == (n - 1) \div m
<1>1. n - 1 \in Nat
  OBVIOUS
<1>2. q \in Nat /\ m * q <= n - 1 /\ n - 1 < m * q + m
  BY <1>1, Quotient
<1>3. Times(n, m) = q + 1
  BY DEF Times
<1> HIDE DEF q
<1>4. (q + 1) * m = m * q + m /\ ((q + 1) - 1) * m = m * q
  BY <1>2
<1>5. ASSUME n <= m PROVE q = 0
  <2>1. m * 0 <= n - 1 /\ n - 1 < m * 0 + m
    BY <1>1, <1>5
  <2> QED BY <1>1, <2>1, QuotientIs DEF q
<1>6. ASSUME n > m PROVE Times(n - m, m) = q
  <2>1. (n - m) - 1 \in Nat /\ q - 1 \in Int
    BY <1>2, <1>6
  <2>2. m * (q - 1) = m * q - m
    BY <1>2
  <2>3. m * q \in Int
    BY <1>2
  <2>4. m * (q - 1) <= (n - m) - 1 /\ (n - m) - 1 < m * (q - 1) + m
    BY <1>2, <2>2, <2>3
  <2>5. ((n - m) - 1) \div m = q - 1
    BY <2>1, <2>4, QuotientIs
  <2> QED BY <1>2, <2>5 DEF Times
<1>7. m * q \in Int
  BY <1>2
<1> QED BY <1>2, <1>3, <1>4, <1>5, <1>6, <1>7

\* A length that fits is one piece.
LEMMA TimesOnce ==
  ASSUME NEW n \in Nat \ {0}, NEW m \in Nat \ {0}, n <= m
  PROVE  Times(n, m) = 1
BY TimesAre

\* A longer one is a piece and the pieces of what is left.
LEMMA TimesMore ==
  ASSUME NEW n \in Nat \ {0}, NEW m \in Nat \ {0}, n > m
  PROVE  /\ Times(n, m) = 1 + Times(n - m, m)
         /\ Times(n, m) \in Nat /\ Times(n - m, m) \in Nat
<1>1. n - m \in Nat \ {0}
  OBVIOUS
<1> QED BY <1>1, TimesAre

-----------------------------------------------------------------------------
(* Rectangles cut in two, and the lists that tile them. *)

Extent == [x : Int, y : Int, w : Nat, h : Nat]

Tiles(s, r) == s \in Seq(Rectangle) /\ Apart(s) /\ CoverOf(s) = Cells(r)

\* A rectangle is an extent that is not empty.
LEMMA RectangleIs ==
  ASSUME NEW r
  PROVE  /\ r \in Extent => /\ r.x \in Int /\ r.y \in Int /\ r.w \in Nat /\ r.h \in Nat
                            /\ r \in [x : Int, y : Int, w : Int, h : Int]
         /\ r \in Rectangle => r \in Extent /\ r.w > 0 /\ r.h > 0
         /\ r \in Extent /\ r.w > 0 /\ r.h > 0 => r \in Rectangle
BY DEF Extent, Rectangle

\* Some rows, or columns, of a rectangle.
LEMMA RowsAre ==
  ASSUME NEW r \in Extent, NEW y \in Int, NEW n \in Nat
  PROVE  /\ Rows(r, y, n) \in Extent
         /\ Rows(r, y, n).x = r.x /\ Rows(r, y, n).w = r.w /\ Rows(r, y, n).y = y /\ Rows(r, y, n).h = n
         /\ Columns(r, y, n) \in Extent
         /\ Columns(r, y, n).x = y /\ Columns(r, y, n).w = n /\ Columns(r, y, n).y = r.y /\ Columns(r, y, n).h = r.h
BY DEF Extent, Rows, Columns

\* The pixels of an extent.
LEMMA ExtentCells ==
  ASSUME NEW r \in Extent
  PROVE  /\ \A x, y \in Int : <<x, y>> \in Cells(r) <=>
               (r.x <= x /\ x < r.x + r.w /\ r.y <= y /\ y < r.y + r.h)
         /\ \A p \in Cells(r) : \E x, y \in Int : p = <<x, y>>
BY RectangleIs, CellsAre DEF InRect

\* r is what a and b are together.
Splits(r, a, b) == Cells(r) = Cells(a) \cup Cells(b) /\ Cells(a) \cap Cells(b) = {}

\* A rectangle cut between two rows.
LEMMA RowsSplit ==
  ASSUME NEW r \in Extent, NEW n \in Nat, n <= r.h
  PROVE  Splits(r, Rows(r, r.y, n), Rows(r, r.y + n, r.h - n))
<1> DEFINE a == Rows(r, r.y, n)
           b == Rows(r, r.y + n, r.h - n)
<1>1. /\ r.x \in Int /\ r.y \in Int /\ r.w \in Nat /\ r.h \in Nat
      /\ r.y + n \in Int /\ r.h - n \in Nat /\ (r.y + n) + (r.h - n) = r.y + r.h
  BY RectangleIs
<1>2. /\ a \in Extent /\ a.x = r.x /\ a.w = r.w /\ a.y = r.y /\ a.h = n
      /\ b \in Extent /\ b.x = r.x /\ b.w = r.w /\ b.y = r.y + n /\ b.h = r.h - n
  BY <1>1, RowsAre
<1> HIDE DEF a, b
<1>3. ASSUME NEW x \in Int, NEW y \in Int
      PROVE  /\ <<x, y>> \in Cells(r) <=> (<<x, y>> \in Cells(a) \/ <<x, y>> \in Cells(b))
             /\ ~(<<x, y>> \in Cells(a) /\ <<x, y>> \in Cells(b))
  <2>1. <<x, y>> \in Cells(r) <=> (r.x <= x /\ x < r.x + r.w /\ r.y <= y /\ y < r.y + r.h)
    BY ExtentCells
  <2>2. <<x, y>> \in Cells(a) <=> (r.x <= x /\ x < r.x + r.w /\ r.y <= y /\ y < r.y + n)
    BY <1>2, ExtentCells
  <2>3. <<x, y>> \in Cells(b) <=> (r.x <= x /\ x < r.x + r.w /\ r.y + n <= y /\ y < r.y + r.h)
    BY <1>1, <1>2, ExtentCells
  <2> QED BY <1>1, <2>1, <2>2, <2>3
<1>4. /\ \A p \in Cells(r) : \E x, y \in Int : p = <<x, y>>
      /\ \A p \in Cells(a) : \E x, y \in Int : p = <<x, y>>
      /\ \A p \in Cells(b) : \E x, y \in Int : p = <<x, y>>
  BY <1>2, ExtentCells
<1>5. Splits(r, a, b)
  BY <1>3, <1>4 DEF Splits
<1> QED BY <1>5 DEF a, b

\* A rectangle cut between two columns.
LEMMA ColumnsSplit ==
  ASSUME NEW r \in Extent, NEW n \in Nat, n <= r.w
  PROVE  Splits(r, Columns(r, r.x, n), Columns(r, r.x + n, r.w - n))
<1> DEFINE a == Columns(r, r.x, n)
           b == Columns(r, r.x + n, r.w - n)
<1>1. /\ r.x \in Int /\ r.y \in Int /\ r.w \in Nat /\ r.h \in Nat
      /\ r.x + n \in Int /\ r.w - n \in Nat /\ (r.x + n) + (r.w - n) = r.x + r.w
  BY RectangleIs
<1>2. /\ a \in Extent /\ a.x = r.x /\ a.w = n /\ a.y = r.y /\ a.h = r.h
      /\ b \in Extent /\ b.x = r.x + n /\ b.w = r.w - n /\ b.y = r.y /\ b.h = r.h
  BY <1>1, RowsAre
<1> HIDE DEF a, b
<1>3. ASSUME NEW x \in Int, NEW y \in Int
      PROVE  /\ <<x, y>> \in Cells(r) <=> (<<x, y>> \in Cells(a) \/ <<x, y>> \in Cells(b))
             /\ ~(<<x, y>> \in Cells(a) /\ <<x, y>> \in Cells(b))
  <2>1. <<x, y>> \in Cells(r) <=> (r.x <= x /\ x < r.x + r.w /\ r.y <= y /\ y < r.y + r.h)
    BY ExtentCells
  <2>2. <<x, y>> \in Cells(a) <=> (r.x <= x /\ x < r.x + n /\ r.y <= y /\ y < r.y + r.h)
    BY <1>2, ExtentCells
  <2>3. <<x, y>> \in Cells(b) <=> (r.x + n <= x /\ x < r.x + r.w /\ r.y <= y /\ y < r.y + r.h)
    BY <1>1, <1>2, ExtentCells
  <2> QED BY <1>1, <2>1, <2>2, <2>3
<1>4. /\ \A p \in Cells(r) : \E x, y \in Int : p = <<x, y>>
      /\ \A p \in Cells(a) : \E x, y \in Int : p = <<x, y>>
      /\ \A p \in Cells(b) : \E x, y \in Int : p = <<x, y>>
  BY <1>2, ExtentCells
<1>5. Splits(r, a, b)
  BY <1>3, <1>4 DEF Splits
<1> QED BY <1>5 DEF a, b

\* A rectangle tiles itself, and no rectangle an empty extent.
LEMMA TilesOne ==
  /\ \A r \in Rectangle : Tiles(<<r>>, r) /\ Len(<<r>>) = 1 /\ ToSet(<<r>>) = {r}
  /\ \A r \in Extent : r.w = 0 \/ r.h = 0 => Tiles(<<>>, r)
  /\ ToSet(<<>>) = {}
<1>1. ASSUME NEW r \in Rectangle PROVE Tiles(<<r>>, r) /\ Len(<<r>>) = 1 /\ ToSet(<<r>>) = {r}
  <2>1. <<r>> \in Seq(Rectangle) /\ DOMAIN <<r>> = {1} /\ ToSet(<<r>>) = {r} /\ Len(<<r>>) = 1
    BY JoinOne
  <2>2. Apart(<<r>>)
    BY <2>1 DEF Apart
  <2>3. CoverOf(<<r>>) = Cells(r)
    BY <2>1 DEF CoverOf
  <2> QED BY <2>1, <2>2, <2>3 DEF Tiles
<1>2. ASSUME NEW r \in Extent, r.w = 0 \/ r.h = 0 PROVE Tiles(<<>>, r)
  <2>1. DOMAIN <<>> = {} /\ ToSet(<<>>) = {} /\ <<>> \in Seq(Rectangle)
    <3>1. ToSet(<<>>) = {}
      BY JoinOne, Zenon
    <3>2. DOMAIN <<>> = {} /\ <<>> \in Seq(Rectangle)
      OBVIOUS
    <3> QED BY <3>1, <3>2
  <2>2. \A x, y \in Int : <<x, y>> \notin Cells(r)
    <3>1. r.x \in Int /\ r.y \in Int /\ r.w \in Nat /\ r.h \in Nat
      BY RectangleIs
    <3>2. \A x, y \in Int : ~(r.x <= x /\ x < r.x + r.w /\ r.y <= y /\ y < r.y + r.h)
      BY <1>2, <3>1
    <3> QED BY <3>2, ExtentCells
  <2>3. Cells(r) = {}
    BY <2>2, ExtentCells
  <2>4. Apart(<<>>) /\ CoverOf(<<>>) = {}
    BY <2>1 DEF Apart, CoverOf
  <2> QED BY <2>1, <2>3, <2>4 DEF Tiles
<1>3. ToSet(<<>>) = {}
  BY JoinOne
<1> QED BY <1>1, <1>2, <1>3

\* Tilings of the two parts of a rectangle are one of it.
LEMMA TilesJoin ==
  ASSUME NEW r, NEW a, NEW b, NEW s, NEW t, Splits(r, a, b), Tiles(s, a), Tiles(t, b)
  PROVE  Tiles(s \o t, r)
<1>1. s \in Seq(Rectangle) /\ t \in Seq(Rectangle)
  BY DEF Tiles
<1>2. s \o t \in Seq(Rectangle)
  BY <1>1, Join
<1>3. CoverOf(s \o t) = CoverOf(s) \cup CoverOf(t)
  BY <1>1, JoinCovers
<1>4. Apart(s) /\ Apart(t) /\ CoverOf(s) \cap CoverOf(t) = {}
  BY DEF Tiles, Splits
<1>5. Apart(s \o t)
  BY <1>1, <1>4, JoinCovers
<1> QED BY <1>2, <1>3, <1>5 DEF Tiles, Splits

-----------------------------------------------------------------------------
(* CoRRE. *)

\* The halves into which CoRRE cuts what is too high or too wide.
LEMMA CoRREParts ==
  ASSUME NEW r \in Rectangle
  PROVE  /\ CorreMax \in Nat \ {0} /\ r.w + r.h \in Nat
         /\ r.h > CorreMax =>
              LET a == Rows(r, r.y, CorreMax)
                  b == Rows(r, r.y + CorreMax, r.h - CorreMax)
              IN /\ a \in Rectangle /\ a.w = r.w /\ a.h = CorreMax /\ a.w + a.h < r.w + r.h
                 /\ b \in Rectangle /\ b.w = r.w /\ b.h = r.h - CorreMax /\ b.w + b.h < r.w + r.h
                 /\ Splits(r, a, b)
         /\ r.w > CorreMax =>
              LET a == Columns(r, r.x, CorreMax)
                  b == Columns(r, r.x + CorreMax, r.w - CorreMax)
              IN /\ a \in Rectangle /\ a.h = r.h /\ a.w = CorreMax /\ a.w + a.h < r.w + r.h
                 /\ b \in Rectangle /\ b.h = r.h /\ b.w = r.w - CorreMax /\ b.w + b.h < r.w + r.h
                 /\ Splits(r, a, b)
<1> DEFINE C == CorreMax
<1>1. C \in Nat \ {0}
  BY EncodingsAssumption
<1>2. r \in Extent /\ r.x \in Int /\ r.y \in Int /\ r.w \in Nat /\ r.h \in Nat /\ r.w > 0 /\ r.h > 0
  BY RectangleIs
<1> HIDE DEF C
<1>3. ASSUME r.h > C
      PROVE  LET a == Rows(r, r.y, C)
                 b == Rows(r, r.y + C, r.h - C)
             IN /\ a \in Rectangle /\ a.w = r.w /\ a.h = C /\ a.w + a.h < r.w + r.h
                /\ b \in Rectangle /\ b.w = r.w /\ b.h = r.h - C /\ b.w + b.h < r.w + r.h
                /\ Splits(r, a, b)
  <2> DEFINE a == Rows(r, r.y, C)
             b == Rows(r, r.y + C, r.h - C)
  <2>1. r.y + C \in Int /\ r.h - C \in Nat /\ r.h - C > 0 /\ C <= r.h
    BY <1>1, <1>2, <1>3
  <2>2. a \in Extent /\ a.w = r.w /\ a.h = C /\ b \in Extent /\ b.w = r.w /\ b.h = r.h - C
    BY <1>1, <1>2, <2>1, RowsAre
  <2>3. Splits(r, a, b)
    BY <1>1, <1>2, <2>1, RowsSplit
  <2> HIDE DEF a, b
  <2>4. a \in Rectangle /\ b \in Rectangle
    BY <1>1, <1>2, <2>1, <2>2, RectangleIs
  <2>5. a.w + a.h < r.w + r.h /\ b.w + b.h < r.w + r.h
    BY <1>1, <1>2, <1>3, <2>2
  <2> QED BY <2>2, <2>3, <2>4, <2>5 DEF a, b
<1>4. ASSUME r.w > C
      PROVE  LET a == Columns(r, r.x, C)
                 b == Columns(r, r.x + C, r.w - C)
             IN /\ a \in Rectangle /\ a.h = r.h /\ a.w = C /\ a.w + a.h < r.w + r.h
                /\ b \in Rectangle /\ b.h = r.h /\ b.w = r.w - C /\ b.w + b.h < r.w + r.h
                /\ Splits(r, a, b)
  <2> DEFINE a == Columns(r, r.x, C)
             b == Columns(r, r.x + C, r.w - C)
  <2>1. r.x + C \in Int /\ r.w - C \in Nat /\ r.w - C > 0 /\ C <= r.w
    BY <1>1, <1>2, <1>4
  <2>2. a \in Extent /\ a.h = r.h /\ a.w = C /\ b \in Extent /\ b.h = r.h /\ b.w = r.w - C
    BY <1>1, <1>2, <2>1, RowsAre
  <2>3. Splits(r, a, b)
    BY <1>1, <1>2, <2>1, ColumnsSplit
  <2> HIDE DEF a, b
  <2>4. a \in Rectangle /\ b \in Rectangle
    BY <1>1, <1>2, <2>1, <2>2, RectangleIs
  <2>5. a.w + a.h < r.w + r.h /\ b.w + b.h < r.w + r.h
    BY <1>1, <1>2, <1>4, <2>2
  <2> QED BY <2>2, <2>3, <2>4, <2>5 DEF a, b
<1> QED BY <1>1, <1>2, <1>3, <1>4 DEF C

CoRREStep(f, r) ==
    IF r.h > CorreMax
    THEN f[Rows(r, r.y, CorreMax)] \o f[Rows(r, r.y + CorreMax, r.h - CorreMax)]
    ELSE IF r.w > CorreMax
    THEN f[Columns(r, r.x, CorreMax)] \o f[Columns(r, r.x + CorreMax, r.w - CorreMax)]
    ELSE <<r>>

\* The recursive definition of CoRRE holds of what it defines.
LEMMA CoRREUnfolds == \A r \in Rectangle : CoRRE[r] = CoRREStep(CoRRE, r)
<1> DEFINE X == Rectangle
           Y == Seq(Rectangle)
           m == [r \in X |-> r.w + r.h]
           D == [f \in [X -> Y] |-> [r \in X |-> CoRREStep(f, r)]]
<1>1. m \in [X -> Nat] /\ Y # {}
  <2>1. \A r \in X : r.w + r.h \in Nat
    BY CoRREParts, Zenon
  <2>2. <<>> \in Y
    OBVIOUS
  <2>3. m \in [X -> Nat]
    <3> HIDE DEF X
    <3> QED BY <2>1
  <2> QED BY <2>2, <2>3
<1>2. ASSUME NEW f \in [X -> Y], NEW r \in X PROVE CoRREStep(f, r) \in Y
  <2>1. CASE r.h > CorreMax
    <3>1. f[Rows(r, r.y, CorreMax)] \in Y /\ f[Rows(r, r.y + CorreMax, r.h - CorreMax)] \in Y
      BY <2>1, CoRREParts
    <3> QED BY <2>1, <3>1, ConcatProperties DEF CoRREStep
  <2>2. CASE ~(r.h > CorreMax) /\ r.w > CorreMax
    <3>1. f[Columns(r, r.x, CorreMax)] \in Y /\ f[Columns(r, r.x + CorreMax, r.w - CorreMax)] \in Y
      BY <2>2, CoRREParts
    <3> QED BY <2>2, <3>1, ConcatProperties DEF CoRREStep
  <2>3. CASE ~(r.h > CorreMax) /\ ~(r.w > CorreMax)
    BY <2>3 DEF CoRREStep
  <2> QED BY <2>1, <2>2, <2>3
<1>3. D \in [[X -> Y] -> [X -> Y]]
  <2> HIDE DEF X, Y
  <2> QED BY <1>2, Zenon
<1>4. Determined(X, Y, m, D)
  <2>1. ASSUME NEW f \in [X -> Y], NEW g \in [X -> Y], NEW r \in X,
               \A z \in X : m[z] < m[r] => f[z] = g[z]
        PROVE  D[f][r] = D[g][r]
    <3>1. \A z \in X : z.w + z.h < r.w + r.h => f[z] = g[z]
      BY <2>1
    <3>2. CASE r.h > CorreMax
      BY <3>1, <3>2, CoRREParts DEF CoRREStep
    <3>3. CASE ~(r.h > CorreMax) /\ r.w > CorreMax
      BY <3>1, <3>3, CoRREParts DEF CoRREStep
    <3>4. CASE ~(r.h > CorreMax) /\ ~(r.w > CorreMax)
      BY <3>4 DEF CoRREStep
    <3> QED BY <3>2, <3>3, <3>4
  <2> HIDE DEF X, Y, m, D
  <2> QED BY <2>1 DEF Determined
<1>5. PICK f \in [X -> Y] : Solves(X, D, f)
  <2> HIDE DEF X, Y, m, D
  <2> QED BY <1>1, <1>3, <1>4, Recursion, Zenon
<1>6. f = [r \in X |-> CoRREStep(f, r)]
  BY <1>5, Zenon DEF Solves
<1>7. CoRRE = [r \in X |-> CoRREStep(CoRRE, r)]
  BY <1>6, Zenon DEF CoRRE, CoRREStep
<1> QED BY <1>7

\* rfbSendRectEncodingCoRRE cuts a rectangle into as many pieces as were
\* announced, none of them too large.
LEMMA CoRRETiles ==
  ASSUME NEW r \in Rectangle
  PROVE  /\ Tiles(CoRRE[r], r)
         /\ \A p \in ToSet(CoRRE[r]) : p.w <= CorreMax /\ p.h <= CorreMax
         /\ Len(CoRRE[r]) = Times(r.w, CorreMax) * Times(r.h, CorreMax)
<1> DEFINE C == CorreMax
           Good(s, z) == /\ Tiles(s, z) /\ (\A p \in ToSet(s) : p.w <= C /\ p.h <= C)
                         /\ Len(s) = Times(z.w, C) * Times(z.h, C)
           G == {z \in Rectangle : Good(CoRRE[z], z)}
           m == [z \in Rectangle |-> z.w + z.h]
<1>1. ASSUME NEW z \in Rectangle, \A q \in Rectangle : q.w + q.h < z.w + z.h => Good(CoRRE[q], q)
      PROVE  Good(CoRRE[z], z)
  <2> DEFINE w == z.w
             h == z.h
  <2>1. C \in Nat \ {0} /\ w \in Nat \ {0} /\ h \in Nat \ {0}
    BY CoRREParts, RectangleIs
  <2>2. Times(w, C) \in Nat /\ Times(h, C) \in Nat
    BY <2>1, TimesAre
  <2>3. CoRRE[z] = CoRREStep(CoRRE, z)
    BY CoRREUnfolds
  <2> HIDE DEF Good
  <2>4. CASE h > C
    <3> DEFINE a == Rows(z, z.y, C)
               b == Rows(z, z.y + C, z.h - C)
    <3>1. /\ a \in Rectangle /\ a.w = w /\ a.h = C /\ a.w + a.h < z.w + z.h
          /\ b \in Rectangle /\ b.w = w /\ b.h = h - C /\ b.w + b.h < z.w + z.h
          /\ Splits(z, a, b)
      BY <2>4, CoRREParts
    <3>2. CoRRE[z] = CoRRE[a] \o CoRRE[b]
      BY <2>3, <2>4 DEF CoRREStep
    <3> HIDE DEF a, b
    <3>3. Good(CoRRE[a], a) /\ Good(CoRRE[b], b)
      BY <1>1, <3>1
    <3>4. /\ Tiles(CoRRE[z], z) /\ Len(CoRRE[z]) = Len(CoRRE[a]) + Len(CoRRE[b])
          /\ ToSet(CoRRE[z]) = ToSet(CoRRE[a]) \cup ToSet(CoRRE[b])
      <4>1. Tiles(CoRRE[a], a) /\ Tiles(CoRRE[b], b) /\ Splits(z, a, b)
        BY <3>1, <3>3 DEF Good
      <4> DEFINE s == CoRRE[a]
                 t == CoRRE[b]
      <4> HIDE DEF s, t
      <4>2. Tiles(s, a) /\ Tiles(t, b) /\ CoRRE[z] = s \o t
        BY <3>2, <4>1 DEF s, t
      <4>3. /\ Tiles(s \o t, z) /\ Len(s \o t) = Len(s) + Len(t)
            /\ ToSet(s \o t) = ToSet(s) \cup ToSet(t)
        <5>1. Tiles(s \o t, z)
          BY <4>1, <4>2, TilesJoin
        <5>2. s \in Seq(Rectangle) /\ t \in Seq(Rectangle)
          BY <4>2 DEF Tiles
        <5> QED BY <5>1, <5>2, Join, JoinSet
      <4> QED BY <4>2, <4>3 DEF s, t
    <3>5. Times(C, C) = 1 /\ Times(h, C) = 1 + Times(h - C, C)
      BY <2>1, <2>4, TimesOnce, TimesMore
    <3>6. Len(CoRRE[a]) = Times(w, C) * 1 /\ Len(CoRRE[b]) = Times(w, C) * Times(h - C, C)
      BY <3>1, <3>3, <3>5 DEF Good
    <3>7. Times(h - C, C) \in Nat
      BY <2>1, <2>4, TimesMore
    <3>8. Times(w, C) * 1 + Times(w, C) * Times(h - C, C) = Times(w, C) * (1 + Times(h - C, C))
      <4> DEFINE t == Times(w, C)
                 u == Times(h - C, C)
      <4> HIDE DEF t, u
      <4>1. t \in Nat /\ u \in Nat
        BY <2>2, <3>7 DEF t, u
      <4>2. t * 1 + t * u = t * (1 + u)
        BY <4>1
      <4> QED BY <4>2 DEF t, u
    <3>9. Len(CoRRE[z]) = Times(w, C) * Times(h, C)
      BY <3>4, <3>5, <3>6, <3>8
    <3> QED BY <3>3, <3>4, <3>9 DEF Good
  <2>5. CASE ~(h > C) /\ w > C
    <3> DEFINE a == Columns(z, z.x, C)
               b == Columns(z, z.x + C, z.w - C)
    <3>1. /\ a \in Rectangle /\ a.h = h /\ a.w = C /\ a.w + a.h < z.w + z.h
          /\ b \in Rectangle /\ b.h = h /\ b.w = w - C /\ b.w + b.h < z.w + z.h
          /\ Splits(z, a, b)
      BY <2>5, CoRREParts
    <3>2. CoRRE[z] = CoRRE[a] \o CoRRE[b]
      BY <2>3, <2>5 DEF CoRREStep
    <3> HIDE DEF a, b
    <3>3. Good(CoRRE[a], a) /\ Good(CoRRE[b], b)
      BY <1>1, <3>1
    <3>4. /\ Tiles(CoRRE[z], z) /\ Len(CoRRE[z]) = Len(CoRRE[a]) + Len(CoRRE[b])
          /\ ToSet(CoRRE[z]) = ToSet(CoRRE[a]) \cup ToSet(CoRRE[b])
      <4>1. Tiles(CoRRE[a], a) /\ Tiles(CoRRE[b], b) /\ Splits(z, a, b)
        BY <3>1, <3>3 DEF Good
      <4> DEFINE s == CoRRE[a]
                 t == CoRRE[b]
      <4> HIDE DEF s, t
      <4>2. Tiles(s, a) /\ Tiles(t, b) /\ CoRRE[z] = s \o t
        BY <3>2, <4>1 DEF s, t
      <4>3. /\ Tiles(s \o t, z) /\ Len(s \o t) = Len(s) + Len(t)
            /\ ToSet(s \o t) = ToSet(s) \cup ToSet(t)
        <5>1. Tiles(s \o t, z)
          BY <4>1, <4>2, TilesJoin
        <5>2. s \in Seq(Rectangle) /\ t \in Seq(Rectangle)
          BY <4>2 DEF Tiles
        <5> QED BY <5>1, <5>2, Join, JoinSet
      <4> QED BY <4>2, <4>3 DEF s, t
    <3>5. Times(h, C) = 1 /\ Times(C, C) = 1 /\ Times(w, C) = 1 + Times(w - C, C)
      <4>1. h <= C
        BY <2>1, <2>5
      <4>2. Times(h, C) = 1 /\ Times(C, C) = 1
        BY <2>1, <4>1, TimesOnce
      <4> QED BY <2>1, <2>5, <4>2, TimesMore
    <3>6. Len(CoRRE[a]) = 1 * 1 /\ Len(CoRRE[b]) = Times(w - C, C) * 1
      BY <3>1, <3>3, <3>5 DEF Good
    <3>7. Times(w - C, C) \in Nat
      BY <2>1, <2>5, TimesMore
    <3>8. Len(CoRRE[z]) = Times(w, C) * Times(h, C)
      BY <3>4, <3>5, <3>6, <3>7
    <3> QED BY <3>3, <3>4, <3>8 DEF Good
  <2>6. CASE ~(h > C) /\ ~(w > C)
    <3>1. CoRRE[z] = <<z>>
      BY <2>3, <2>6 DEF CoRREStep
    <3>2. Times(h, C) = 1 /\ Times(w, C) = 1 /\ h <= C /\ w <= C
      <4>1. h <= C /\ w <= C
        BY <2>1, <2>6
      <4> QED BY <2>1, <4>1, TimesOnce
    <3> QED BY <3>1, <3>2, TilesOne DEF Good
  <2> QED BY <2>4, <2>5, <2>6
<1>2. Rectangle \subseteq G
  <2>1. m \in [Rectangle -> Nat]
    BY CoRREParts
  <2>2. ASSUME NEW z \in Rectangle, \A q \in Rectangle : m[q] < m[z] => q \in G PROVE z \in G
    <3>1. \A q \in Rectangle : q.w + q.h < z.w + z.h => Good(CoRRE[q], q)
      BY <2>2
    <3> QED BY <1>1, <3>1
  <2> HIDE DEF m, G
  <2> QED BY <2>1, <2>2, Induction
<1> QED BY <1>2

-----------------------------------------------------------------------------
(* Ultra and Zlib. *)

LinesFit(p) == Area(p) <= Greater(LinesMax, 2 * p.w)

\* MaxLines rows of a width fit the buffer, and there is at least one.
LEMMA MaxLinesIs ==
  ASSUME NEW w \in Nat \ {0}
  PROVE  /\ MaxLines(w) \in Nat \ {0}
         /\ \A h \in Nat : h <= MaxLines(w) => w * h <= Greater(LinesMax, 2 * w)
<1> DEFINE g == Greater(w * 2, LinesMax)
           n == g \div w
<1>1. LinesMax \in Nat \ {0}
  BY EncodingsAssumption
<1>2. w * 2 \in Nat /\ w * 2 >= w /\ 2 * w = w * 2
  OBVIOUS
<1>3. g \in Nat /\ g >= w /\ g = Greater(LinesMax, 2 * w)
  BY <1>1, <1>2 DEF Greater
<1> HIDE DEF g
<1>4. n \in Nat /\ w * n <= g /\ g < w * n + w
  BY <1>3, Quotient
<1>5. MaxLines(w) = n
  BY DEF MaxLines, g
<1> HIDE DEF n
<1>6. n # 0
  <2>1. CASE n = 0
    <3>1. w * 0 = 0
      OBVIOUS
    <3> QED BY <1>3, <1>4, <2>1, <3>1
  <2> QED BY <2>1
<1>7. ASSUME NEW h \in Nat, h <= n PROVE w * h <= g
  <2>1. w * h <= w * n /\ w * h \in Int /\ w * n \in Int
    BY <1>4, <1>7, Multiple
  <2> QED BY <1>3, <1>4, <2>1
<1> QED BY <1>3, <1>4, <1>5, <1>6, <1>7

\* The first lines of a rectangle and the rest.
LEMMA LinesParts ==
  ASSUME NEW r \in Rectangle
  PROVE  /\ MaxLines(r.w) \in Nat \ {0} /\ r.h \in Nat \ {0} /\ r.w \in Nat \ {0}
         /\ (r.h <= MaxLines(r.w) => LinesFit(r))
         /\ (r.h > MaxLines(r.w) =>
              LET n == MaxLines(r.w)
                  a == Rows(r, r.y, n)
                  b == Rows(r, r.y + n, r.h - n)
              IN /\ a \in Rectangle /\ LinesFit(a)
                 /\ b \in Rectangle /\ b.w = r.w /\ b.h = r.h - n /\ b.h < r.h
                 /\ Splits(r, a, b))
<1> DEFINE n == MaxLines(r.w)
<1>1. r \in Extent /\ r.x \in Int /\ r.y \in Int /\ r.w \in Nat \ {0} /\ r.h \in Nat \ {0}
  BY RectangleIs
<1>2. n \in Nat \ {0} /\ \A h \in Nat : h <= n => r.w * h <= Greater(LinesMax, 2 * r.w)
  BY <1>1, MaxLinesIs
<1> HIDE DEF n
<1>3. r.h <= n => LinesFit(r)
  BY <1>1, <1>2 DEF LinesFit, Area
<1>4. ASSUME r.h > n
      PROVE  LET a == Rows(r, r.y, n)
                 b == Rows(r, r.y + n, r.h - n)
             IN /\ a \in Rectangle /\ LinesFit(a)
                /\ b \in Rectangle /\ b.w = r.w /\ b.h = r.h - n /\ b.h < r.h
                /\ Splits(r, a, b)
  <2> DEFINE a == Rows(r, r.y, n)
             b == Rows(r, r.y + n, r.h - n)
  <2>1. r.y + n \in Int /\ r.h - n \in Nat /\ r.h - n > 0 /\ n <= r.h /\ r.h - n < r.h
    BY <1>1, <1>2, <1>4
  <2>2. a \in Extent /\ a.w = r.w /\ a.h = n /\ b \in Extent /\ b.w = r.w /\ b.h = r.h - n
    BY <1>1, <1>2, <2>1, RowsAre
  <2>3. Splits(r, a, b)
    BY <1>1, <1>2, <2>1, RowsSplit
  <2> HIDE DEF a, b
  <2>4. a \in Rectangle /\ b \in Rectangle
    BY <1>1, <1>2, <2>1, <2>2, RectangleIs
  <2>5. LinesFit(a)
    BY <1>2, <2>2 DEF LinesFit, Area
  <2> QED BY <2>1, <2>2, <2>3, <2>4, <2>5 DEF a, b
<1> QED BY <1>1, <1>2, <1>3, <1>4 DEF n

LinesStep(f, r) ==
    LET n == MaxLines(r.w)
    IN IF r.h <= n THEN <<r>>
       ELSE <<Rows(r, r.y, n)>> \o f[Rows(r, r.y + n, r.h - n)]

\* The recursive definition of Lines holds of what it defines.
LEMMA LinesUnfold == \A r \in Rectangle : Lines[r] = LinesStep(Lines, r)
<1> DEFINE X == Rectangle
           Y == Seq(Rectangle)
           m == [r \in X |-> r.h]
           D == [f \in [X -> Y] |-> [r \in X |-> LinesStep(f, r)]]
<1>1. m \in [X -> Nat] /\ Y # {}
  <2>1. \A r \in X : r.h \in Nat
    BY RectangleIs
  <2>2. <<>> \in Y
    OBVIOUS
  <2>3. m \in [X -> Nat]
    <3> HIDE DEF X
    <3> QED BY <2>1
  <2> QED BY <2>2, <2>3
<1>2. ASSUME NEW f \in [X -> Y], NEW r \in X PROVE LinesStep(f, r) \in Y
  <2> DEFINE n == MaxLines(r.w)
  <2>1. CASE r.h <= n
    BY <2>1 DEF LinesStep
  <2>2. CASE ~(r.h <= n)
    <3>1. n \in Nat /\ r.h \in Nat /\ r.h > n
      BY <2>2, LinesParts
    <3>2. Rows(r, r.y, n) \in X /\ f[Rows(r, r.y + n, r.h - n)] \in Y
      BY <3>1, LinesParts
    <3>3. <<Rows(r, r.y, n)>> \in Y
      BY <3>2
    <3> QED BY <2>2, <3>2, <3>3, ConcatProperties DEF LinesStep
  <2> QED BY <2>1, <2>2
<1>3. D \in [[X -> Y] -> [X -> Y]]
  <2> HIDE DEF X, Y
  <2> QED BY <1>2, Zenon
<1>4. Determined(X, Y, m, D)
  <2>1. ASSUME NEW f \in [X -> Y], NEW g \in [X -> Y], NEW r \in X,
               \A z \in X : m[z] < m[r] => f[z] = g[z]
        PROVE  D[f][r] = D[g][r]
    <3> DEFINE n == MaxLines(r.w)
    <3>1. \A z \in X : z.h < r.h => f[z] = g[z]
      BY <2>1
    <3>2. CASE r.h <= n
      BY <3>2 DEF LinesStep
    <3>3. CASE ~(r.h <= n)
      <4>1. n \in Nat /\ r.h \in Nat /\ r.h > n
        BY <3>3, LinesParts
      <4>2. f[Rows(r, r.y + n, r.h - n)] = g[Rows(r, r.y + n, r.h - n)]
        BY <3>1, <4>1, LinesParts
      <4> QED BY <3>3, <4>2 DEF LinesStep
    <3> QED BY <3>2, <3>3
  <2> HIDE DEF X, Y, m, D
  <2> QED BY <2>1 DEF Determined
<1>5. PICK f \in [X -> Y] : Solves(X, D, f)
  <2> HIDE DEF X, Y, m, D
  <2> QED BY <1>1, <1>3, <1>4, Recursion, Zenon
<1>6. f = [r \in X |-> LinesStep(f, r)]
  BY <1>5, Zenon DEF Solves
<1>7. Lines = [r \in X |-> LinesStep(Lines, r)]
  BY <1>6, Zenon DEF Lines, LinesStep
<1> QED BY <1>7

\* rfbSendRectEncodingUltra and Zlib cut a rectangle into as many pieces as
\* were announced, none of more pixels than the buffers are made for.
LEMMA LinesTile ==
  ASSUME NEW r \in Rectangle
  PROVE  /\ Tiles(Lines[r], r) /\ \A p \in ToSet(Lines[r]) : LinesFit(p)
         /\ Len(Lines[r]) = Times(r.h, MaxLines(r.w))
<1> DEFINE Good(s, z) == /\ Tiles(s, z) /\ (\A p \in ToSet(s) : LinesFit(p))
                         /\ Len(s) = Times(z.h, MaxLines(z.w))
           G == {z \in Rectangle : Good(Lines[z], z)}
           m == [z \in Rectangle |-> z.h]
<1>1. ASSUME NEW z \in Rectangle, \A q \in Rectangle : q.h < z.h => Good(Lines[q], q)
      PROVE  Good(Lines[z], z)
  <2> DEFINE n == MaxLines(z.w)
             h == z.h
  <2>1. n \in Nat \ {0} /\ h \in Nat \ {0}
    BY LinesParts
  <2>2. Lines[z] = LinesStep(Lines, z)
    BY LinesUnfold
  <2> HIDE DEF Good
  <2>3. CASE h > n
    <3> DEFINE a == Rows(z, z.y, n)
               b == Rows(z, z.y + n, z.h - n)
               s == <<a>>
               t == Lines[b]
    <3>1. /\ a \in Rectangle /\ LinesFit(a) /\ b \in Rectangle /\ b.w = z.w
          /\ b.h = h - n /\ b.h < z.h /\ Splits(z, a, b)
      BY <2>3, LinesParts
    <3>2. Lines[z] = s \o t
      <4>1. ~(h <= n)
        BY <2>1, <2>3
      <4> QED BY <2>2, <4>1 DEF LinesStep
    <3> HIDE DEF a, b
    <3>3. Good(t, b)
      BY <1>1, <3>1
    <3>4. Tiles(s, a) /\ Len(s) = 1 /\ ToSet(s) = {a}
      BY <3>1, TilesOne
    <3> HIDE DEF s, t
    <3>5. Tiles(t, b) /\ (\A p \in ToSet(t) : LinesFit(p)) /\ Len(t) = Times(h - n, n)
      BY <3>1, <3>3 DEF Good
    <3>6. Tiles(s \o t, z)
      BY <3>1, <3>4, <3>5, TilesJoin
    <3>7. s \in Seq(Rectangle) /\ t \in Seq(Rectangle)
      BY <3>4, <3>5 DEF Tiles
    <3>8. Len(s \o t) = Len(s) + Len(t) /\ ToSet(s \o t) = ToSet(s) \cup ToSet(t)
      BY <3>7, Join, JoinSet
    <3>9. Times(h, n) = 1 + Times(h - n, n)
      BY <2>1, <2>3, TimesMore
    <3>10. Len(s \o t) = Times(h, n) /\ \A p \in ToSet(s \o t) : LinesFit(p)
      BY <3>1, <3>4, <3>5, <3>8, <3>9
    <3> QED BY <3>2, <3>6, <3>10 DEF Good
  <2>4. CASE h <= n
    <3>1. Lines[z] = <<z>>
      BY <2>2, <2>4 DEF LinesStep
    <3>2. Times(h, n) = 1
      BY <2>1, <2>4, TimesOnce
    <3>3. LinesFit(z)
      BY <2>4, LinesParts
    <3> QED BY <3>1, <3>2, <3>3, TilesOne DEF Good
  <2> QED BY <2>1, <2>3, <2>4
<1>2. Rectangle \subseteq G
  <2>1. m \in [Rectangle -> Nat]
    <3>1. \A z \in Rectangle : z.h \in Nat
      BY RectangleIs
    <3> QED BY <3>1
  <2>2. ASSUME NEW z \in Rectangle, \A q \in Rectangle : m[q] < m[z] => q \in G PROVE z \in G
    <3>1. \A q \in Rectangle : q.h < z.h => Good(Lines[q], q)
      BY <2>2
    <3> QED BY <1>1, <3>1
  <2> HIDE DEF m, G
  <2> QED BY <2>1, <2>2, Induction
<1> QED BY <1>2

-----------------------------------------------------------------------------
(* A grid. *)

\* The length of the flat list is the sum of the lengths.
LEMMA FlattenedLength ==
  ASSUME NEW S, NEW ss \in Seq(Seq(S)), NEW g, g[0] = 0,
         \A i \in 1..Len(ss) : g[i] = g[i - 1] + Len(ss[i])
  PROVE  Len(FlattenSeq(ss)) = g[Len(ss)]
<1> DEFINE n == Len(ss)
<1>1. n \in Nat /\ \A i \in 1..n : ss[i] \in Seq(S) /\ Len(ss[i]) \in Nat
  OBVIOUS
<1>2. CASE n = 0
  <2>1. ss = <<>>
    BY <1>2
  <2>2. FlattenSeq(ss) = <<>>
    BY <1>2, <2>1 DEF FlattenSeq
  <2>3. Len(<<>>) = 0
    OBVIOUS
  <2> QED BY <1>2, <2>2, <2>3
<1>3. CASE n > 0
  <2>1. PICK f : Flattens(S, ss, f)
    BY <1>3, Flattened
  <2> HIDE DEF n
  <2>2. /\ f \in [1..n -> Seq(S)] /\ f[1] = ss[1] /\ FlattenSeq(ss) = f[n]
        /\ \A i \in 2..n : f[i] = f[i - 1] \o ss[i]
    BY <2>1, Zenon DEF Flattens, n
  <2>3. \A i \in 1..n : g[i] = g[i - 1] + Len(ss[i])
    BY DEF n
  <2> DEFINE G == {i \in 1..n : Len(f[i]) = g[i]}
  <2>4. 1 \in G
    <3>1. 1 \in 1..n /\ 1 - 1 = 0
      BY <1>1, <1>3
    <3>2. g[1] = 0 + Len(ss[1])
      BY <2>3, <3>1
    <3>3. Len(ss[1]) \in Nat
      BY <1>1, <3>1
    <3> QED BY <2>2, <3>1, <3>2, <3>3
  <2>5. ASSUME NEW i \in 1..n, i \in G, i < n PROVE i + 1 \in G
    <3> DEFINE k == i + 1
    <3>1. k \in 2..n /\ k - 1 = i /\ k \in 1..n
      BY <1>1, <2>5
    <3> HIDE DEF k
    <3>2. f[k] = f[i] \o ss[k]
      BY <2>2, <3>1, Zenon
    <3>3. f[i] \in Seq(S) /\ ss[k] \in Seq(S)
      BY <1>1, <2>2, <3>1
    <3>4. Len(f[k]) = Len(f[i]) + Len(ss[k])
      BY <3>2, <3>3, Join
    <3>5. g[k] = g[i] + Len(ss[k])
      BY <2>3, <3>1
    <3>6. Len(f[i]) = g[i]
      BY <2>5
    <3>7. k \in G
      BY <3>1, <3>4, <3>5, <3>6
    <3> QED BY <3>7 DEF k
  <2> HIDE DEF G
  <2>6. n \in G
    <3>1. 1..n \subseteq G
      BY <1>1, <2>4, <2>5, UpTo, Zenon
    <3> QED BY <1>1, <1>3, <3>1
  <2> QED BY <2>2, <2>6, Zenon DEF G, n
<1> QED BY <1>1, <1>2, <1>3

\* A length of n in pieces of m.
Off(j, m)     == (j - 1) * m
Wide(j, n, m) == Smaller(m, n - Off(j, m))

\* The pieces of m of a length lie side by side and leave nothing out.
LEMMA PiecesOf ==
  ASSUME NEW n \in Nat \ {0}, NEW m \in Nat \ {0}
  PROVE  /\ Times(n, m) \in Nat
         /\ \A j \in 1..Times(n, m) :
               /\ Off(j, m) \in Nat /\ Wide(j, n, m) \in Nat \ {0} /\ Wide(j, n, m) <= m
               /\ Off(j, m) + Wide(j, n, m) <= n
         /\ \A j, k \in 1..Times(n, m) : j < k => Off(j, m) + Wide(j, n, m) <= Off(k, m)
         /\ \A d \in 0 .. n - 1 : \E j \in 1..Times(n, m) :
               Off(j, m) <= d /\ d < Off(j, m) + Wide(j, n, m)
<1> DEFINE t == Times(n, m)
<1>1. t \in Nat \ {0} /\ (t - 1) * m < n /\ n <= t * m
  BY TimesAre
<1> HIDE DEF t
<1>2. ASSUME NEW j \in 1..t
      PROVE  Off(j, m) \in Nat /\ Off(j, m) < n
  <2>1. j - 1 \in Nat /\ t - 1 \in Int /\ j - 1 <= t - 1
    BY <1>1
  <2>2. m * (j - 1) <= m * (t - 1) /\ m * (j - 1) \in Int /\ m * (t - 1) \in Int
    BY <2>1, Multiple
  <2>3. m * (j - 1) \in Nat
    BY <2>1
  <2>4. (j - 1) * m = m * (j - 1) /\ (t - 1) * m = m * (t - 1)
    BY <2>1
  <2> QED BY <1>1, <2>2, <2>3, <2>4 DEF Off
<1>3. ASSUME NEW j \in 1..t
      PROVE  /\ Wide(j, n, m) \in Nat \ {0} /\ Wide(j, n, m) <= m
             /\ Off(j, m) + Wide(j, n, m) <= n
  BY <1>2 DEF Wide, Smaller
<1>4. ASSUME NEW j \in 1..t, NEW k \in 1..t, j < k
      PROVE  Off(j, m) + m <= Off(k, m)
  <2>1. j \in Int /\ k - 1 \in Int /\ j <= k - 1
    BY <1>1, <1>4
  <2>2. m * j <= m * (k - 1)
    BY <2>1, Multiple
  <2>3. (j - 1) * m + m = m * j /\ (k - 1) * m = m * (k - 1)
    BY <2>1
  <2> QED BY <2>2, <2>3 DEF Off
<1>5. ASSUME NEW j \in 1..t, NEW k \in 1..t, j < k
      PROVE  Off(j, m) + Wide(j, n, m) <= Off(k, m)
  BY <1>2, <1>3, <1>4, <1>5
<1>6. ASSUME NEW d \in 0 .. n - 1
      PROVE  \E j \in 1..t : Off(j, m) <= d /\ d < Off(j, m) + Wide(j, n, m)
  <2> DEFINE q == d \div m
  <2>1. d \in Nat /\ d < n
    OBVIOUS
  <2>2. q \in Nat /\ m * q <= d /\ d < m * q + m
    BY <2>1, Quotient
  <2> HIDE DEF q
  <2>3. q < t
    <3>1. CASE t <= q
      <4>1. m * t <= m * q /\ m * t = t * m
        BY <1>1, <2>2, <3>1, Multiple
      <4> QED BY <1>1, <2>1, <2>2, <4>1
    <3> QED BY <1>1, <2>2, <3>1
  <2>4. q + 1 \in 1..t /\ Off(q + 1, m) = m * q
    BY <1>1, <2>2, <2>3 DEF Off
  <2>5. m * q \in Nat
    BY <2>2
  <2>6. d < m * q + Wide(q + 1, n, m)
    BY <2>1, <2>2, <2>4, <2>5 DEF Wide, Smaller
  <2> QED BY <2>2, <2>4, <2>6
<1> QED BY <1>1, <1>2, <1>3, <1>5, <1>6 DEF t

GridPiece(r, w, h, i, j) ==
    [x |-> r.x + Off(j, w), y |-> r.y + Off(i, h), w |-> Wide(j, r.w, w), h |-> Wide(i, r.h, h)]

GridRow(r, w, h, i) == [j \in 1..Times(r.w, w) |-> GridPiece(r, w, h, i, j)]

\* A piece of the grid.
LEMMA GridPieceIs ==
  ASSUME NEW r \in Rectangle, NEW w \in Nat \ {0}, NEW h \in Nat \ {0},
         NEW i \in 1..Times(r.h, h), NEW j \in 1..Times(r.w, w)
  PROVE  LET p == GridPiece(r, w, h, i, j) IN
         /\ p \in Rectangle /\ p.w <= w /\ p.h <= h
         /\ \A x, y \in Int : <<x, y>> \in Cells(p) <=>
               /\ r.x + Off(j, w) <= x /\ x < r.x + Off(j, w) + Wide(j, r.w, w)
               /\ r.y + Off(i, h) <= y /\ y < r.y + Off(i, h) + Wide(i, r.h, h)
<1> DEFINE p == GridPiece(r, w, h, i, j)
<1>1. r.x \in Int /\ r.y \in Int /\ r.w \in Nat \ {0} /\ r.h \in Nat \ {0}
  BY RectangleIs
<1>2. Off(j, w) \in Nat /\ Wide(j, r.w, w) \in Nat \ {0} /\ Wide(j, r.w, w) <= w
  BY <1>1, PiecesOf
<1>3. Off(i, h) \in Nat /\ Wide(i, r.h, h) \in Nat \ {0} /\ Wide(i, r.h, h) <= h
  BY <1>1, PiecesOf
<1>4. /\ p.x = r.x + Off(j, w) /\ p.y = r.y + Off(i, h)
      /\ p.w = Wide(j, r.w, w) /\ p.h = Wide(i, r.h, h)
  BY DEF GridPiece
<1>5. p \in Rectangle
  BY <1>1, <1>2, <1>3 DEF Rectangle, GridPiece
<1> HIDE DEF p
<1>6. p \in Extent
  BY <1>5, RectangleIs
<1>7. \A x, y \in Int : <<x, y>> \in Cells(p) <=>
               /\ r.x + Off(j, w) <= x /\ x < r.x + Off(j, w) + Wide(j, r.w, w)
               /\ r.y + Off(i, h) <= y /\ y < r.y + Off(i, h) + Wide(i, r.h, h)
  BY <1>4, <1>6, ExtentCells
<1> QED BY <1>2, <1>3, <1>4, <1>5, <1>7 DEF p

\* Pixels are pairs of numbers.
LEMMA CoverPairs ==
  ASSUME NEW s, s \in Seq(Rectangle), NEW p \in CoverOf(s)
  PROVE  \E x, y \in Int : p = <<x, y>>
<1>1. PICK r \in ToSet(s) : p \in Cells(r)
  BY DEF CoverOf
<1>2. r \in Extent
  <2>1. r \in Rectangle
    BY DEF ToSet
  <2> QED BY <2>1, RectangleIs
<1> QED BY <1>1, <1>2, ExtentCells

\* A row of the grid.
LEMMA GridRowIs ==
  ASSUME NEW r \in Rectangle, NEW w \in Nat \ {0}, NEW h \in Nat \ {0},
         NEW i \in 1..Times(r.h, h)
  PROVE  LET row == GridRow(r, w, h, i) IN
         /\ row \in Seq(Rectangle) /\ Len(row) = Times(r.w, w) /\ Apart(row)
         /\ \A p \in ToSet(row) : p.w <= w /\ p.h <= h
         /\ \A x, y \in Int : <<x, y>> \in CoverOf(row) <=>
               /\ r.x <= x /\ x < r.x + r.w
               /\ r.y + Off(i, h) <= y /\ y < r.y + Off(i, h) + Wide(i, r.h, h)
<1> DEFINE n == Times(r.w, w)
           row == GridRow(r, w, h, i)
           P(j) == GridPiece(r, w, h, i, j)
           Y(y) == r.y + Off(i, h) <= y /\ y < r.y + Off(i, h) + Wide(i, r.h, h)
           X(j, x) == r.x + Off(j, w) <= x /\ x < r.x + Off(j, w) + Wide(j, r.w, w)
<1>1. r.x \in Int /\ r.y \in Int /\ r.w \in Nat \ {0} /\ r.h \in Nat \ {0} /\ n \in Nat
  <2>1. r.x \in Int /\ r.y \in Int /\ r.w \in Nat \ {0} /\ r.h \in Nat \ {0}
    BY RectangleIs
  <2> QED BY <2>1, PiecesOf
<1>2. /\ \A j \in 1..n : /\ Off(j, w) \in Nat /\ Wide(j, r.w, w) \in Nat \ {0}
                         /\ Off(j, w) + Wide(j, r.w, w) <= r.w
      /\ \A j, k \in 1..n : j < k => Off(j, w) + Wide(j, r.w, w) <= Off(k, w)
      /\ \A d \in 0 .. r.w - 1 : \E j \in 1..n :
               Off(j, w) <= d /\ d < Off(j, w) + Wide(j, r.w, w)
  BY <1>1, PiecesOf
<1>3. \A j \in 1..n : /\ P(j) \in Rectangle /\ P(j).w <= w /\ P(j).h <= h
                      /\ \A x, y \in Int : <<x, y>> \in Cells(P(j)) <=> (X(j, x) /\ Y(y))
  BY GridPieceIs
<1>4. row = [j \in 1..n |-> P(j)]
  BY DEF GridRow
<1> HIDE DEF n, row, P, Y
<1>5. DOMAIN row = 1..n /\ \A j \in 1..n : row[j] = P(j)
  BY <1>4
<1>6. row \in Seq(Rectangle) /\ Len(row) = n
  BY <1>1, <1>3, <1>4
<1>7. ToSet(row) = {P(j) : j \in 1..n}
  BY <1>5 DEF ToSet
<1>8. \A p \in ToSet(row) : p.w <= w /\ p.h <= h
  BY <1>3, <1>7
<1>9. ASSUME NEW x \in Int, NEW y \in Int
      PROVE  <<x, y>> \in CoverOf(row) <=> (r.x <= x /\ x < r.x + r.w /\ Y(y))
  <2>1. <<x, y>> \in CoverOf(row) <=> \E j \in 1..n : X(j, x) /\ Y(y)
    BY <1>3, <1>7 DEF CoverOf
  <2>2. ASSUME NEW j \in 1..n, X(j, x) PROVE r.x <= x /\ x < r.x + r.w
    BY <1>1, <1>2, <2>2
  <2>3. ASSUME r.x <= x, x < r.x + r.w PROVE \E j \in 1..n : X(j, x)
    <3> DEFINE d == x - r.x
    <3>1. d \in 0 .. r.w - 1 /\ x = r.x + d
      BY <1>1, <2>3
    <3> HIDE DEF d
    <3>2. PICK j \in 1..n : Off(j, w) <= d /\ d < Off(j, w) + Wide(j, r.w, w)
      BY <1>2, <3>1
    <3>3. X(j, x)
      BY <1>1, <1>2, <3>1, <3>2
    <3> QED BY <3>3
  <2> QED BY <2>1, <2>2, <2>3
<1>10. ASSUME NEW j \in 1..n, NEW k \in 1..n, j < k PROVE Cells(row[j]) \cap Cells(row[k]) = {}
  <2>1. ASSUME NEW p \in Cells(row[j]), p \in Cells(row[k]) PROVE FALSE
    <3>1. row[j] = P(j) /\ row[k] = P(k) /\ P(j) \in Extent
      BY <1>3, <1>5, RectangleIs
    <3>2. PICK x, y \in Int : p = <<x, y>>
      BY <3>1, ExtentCells
    <3>3. X(j, x)
      BY <1>3, <2>1, <3>1, <3>2
    <3>4. X(k, x)
      BY <1>3, <2>1, <3>1, <3>2
    <3>5. Off(j, w) + Wide(j, r.w, w) <= Off(k, w)
      BY <1>2, <1>10
    <3> QED BY <1>1, <1>2, <3>3, <3>4, <3>5
  <2> QED BY <2>1
<1>11. Apart(row)
  BY <1>5, <1>10 DEF Apart
<1> QED BY <1>6, <1>8, <1>9, <1>11 DEF n, row, Y

\* The loops of SendRectSimple: the grid tiles the rectangle.
LEMMA GridTiles ==
  ASSUME NEW r \in Rectangle, NEW w \in Nat \ {0}, NEW h \in Nat \ {0}
  PROVE  /\ Tiles(Grid(r, w, h), r)
         /\ \A p \in ToSet(Grid(r, w, h)) : p.w <= w /\ p.h <= h
         /\ Len(Grid(r, w, h)) = Times(r.w, w) * Times(r.h, h)
<1> DEFINE m == Times(r.h, h)
           n == Times(r.w, w)
           Row(i) == GridRow(r, w, h, i)
           ss == [i \in 1..m |-> Row(i)]
           Y(i, y) == r.y + Off(i, h) <= y /\ y < r.y + Off(i, h) + Wide(i, r.h, h)
           s == Grid(r, w, h)
<1>1. r.x \in Int /\ r.y \in Int /\ r.w \in Nat \ {0} /\ r.h \in Nat \ {0} /\ m \in Nat /\ n \in Nat
  <2>1. r.x \in Int /\ r.y \in Int /\ r.w \in Nat \ {0} /\ r.h \in Nat \ {0}
    BY RectangleIs
  <2> QED BY <2>1, PiecesOf
<1>2. /\ \A i \in 1..m : /\ Off(i, h) \in Nat /\ Wide(i, r.h, h) \in Nat \ {0}
                         /\ Off(i, h) + Wide(i, r.h, h) <= r.h
      /\ \A i, k \in 1..m : i < k => Off(i, h) + Wide(i, r.h, h) <= Off(k, h)
      /\ \A d \in 0 .. r.h - 1 : \E i \in 1..m :
               Off(i, h) <= d /\ d < Off(i, h) + Wide(i, r.h, h)
  BY <1>1, PiecesOf
<1>3. \A i \in 1..m : /\ Row(i) \in Seq(Rectangle) /\ Len(Row(i)) = n /\ Apart(Row(i))
                      /\ \A p \in ToSet(Row(i)) : p.w <= w /\ p.h <= h
                      /\ \A x, y \in Int : <<x, y>> \in CoverOf(Row(i)) <=>
                            (r.x <= x /\ x < r.x + r.w /\ Y(i, y))
  BY GridRowIs
<1>4. s = FlattenSeq(ss)
  BY DEF Grid, GridRow, GridPiece, Off, Wide
<1> HIDE DEF m, n, Row, s
<1>5. /\ ss \in Seq(Seq(Rectangle)) /\ Len(ss) = m /\ \A i \in 1..m : ss[i] = Row(i)
  BY <1>1, <1>3
<1> HIDE DEF ss
<1>6. s \in Seq(Rectangle) /\ ToSet(s) = UNION {ToSet(ss[i]) : i \in 1..m}
  BY <1>4, <1>5, FlattenedSet
<1>7. \A p \in ToSet(s) : p.w <= w /\ p.h <= h
  BY <1>3, <1>5, <1>6
<1>8. Len(s) = n * m
  <2> DEFINE g == [i \in 0..m |-> n * i]
  <2>1. g[0] = 0 /\ \A i \in 1..m : g[i] = g[i - 1] + n
    <3>1. 0 \in 0..m /\ n * 0 = 0
      BY <1>1
    <3>2. ASSUME NEW i \in 1..m PROVE g[i] = g[i - 1] + n
      <4>1. i \in 0..m /\ i - 1 \in 0..m
        BY <1>1
      <4>2. n * i = n * (i - 1) + n
        BY <1>1
      <4> QED BY <4>1, <4>2
    <3> QED BY <3>1, <3>2
  <2>2. m \in 0..m /\ g[m] = n * m
    BY <1>1
  <2> HIDE DEF g
  <2>3. \A i \in 1..m : g[i] = g[i - 1] + Len(ss[i])
    BY <1>3, <1>5, <2>1
  <2> QED BY <1>4, <1>5, <2>1, <2>2, <2>3, FlattenedLength
<1>9. ASSUME NEW i \in 1..m, NEW k \in 1..m, i < k PROVE CoverOf(ss[i]) \cap CoverOf(ss[k]) = {}
  <2>1. ASSUME NEW p \in CoverOf(ss[i]), p \in CoverOf(ss[k]) PROVE FALSE
    <3>1. PICK x, y \in Int : p = <<x, y>>
      BY <1>3, <1>5, CoverPairs
    <3>2. Y(i, y) /\ Y(k, y)
      BY <1>3, <1>5, <2>1, <3>1
    <3>3. Off(i, h) + Wide(i, r.h, h) <= Off(k, h)
      BY <1>2, <1>9
    <3> QED BY <1>1, <1>2, <3>2, <3>3
  <2> QED BY <2>1
<1>10. Apart(s)
  BY <1>3, <1>4, <1>5, <1>9, FlattenedApart
<1>11. ASSUME NEW x \in Int, NEW y \in Int PROVE <<x, y>> \in CoverOf(s) <=> <<x, y>> \in Cells(r)
  <2>1. <<x, y>> \in CoverOf(s) <=> \E i \in 1..m : r.x <= x /\ x < r.x + r.w /\ Y(i, y)
    BY <1>3, <1>5, <1>6 DEF CoverOf
  <2>2. <<x, y>> \in Cells(r) <=> (r.x <= x /\ x < r.x + r.w /\ r.y <= y /\ y < r.y + r.h)
    BY RectangleIs, ExtentCells
  <2>3. ASSUME NEW i \in 1..m, Y(i, y) PROVE r.y <= y /\ y < r.y + r.h
    BY <1>1, <1>2, <2>3
  <2>4. ASSUME r.y <= y, y < r.y + r.h PROVE \E i \in 1..m : Y(i, y)
    <3> DEFINE d == y - r.y
    <3>1. d \in 0 .. r.h - 1 /\ y = r.y + d
      BY <1>1, <2>4
    <3> HIDE DEF d
    <3>2. PICK i \in 1..m : Off(i, h) <= d /\ d < Off(i, h) + Wide(i, r.h, h)
      BY <1>2, <3>1
    <3>3. Y(i, y)
      BY <1>1, <1>2, <3>1, <3>2
    <3> QED BY <3>3
  <2> QED BY <2>1, <2>2, <2>3, <2>4
<1>12. CoverOf(s) = Cells(r)
  <2>1. \A p \in CoverOf(s) : \E x, y \in Int : p = <<x, y>>
    BY <1>6, CoverPairs
  <2>2. \A p \in Cells(r) : \E x, y \in Int : p = <<x, y>>
    BY RectangleIs, ExtentCells
  <2> QED BY <1>11, <2>1, <2>2
<1> QED BY <1>6, <1>7, <1>8, <1>10, <1>12 DEF Tiles, s, n, m

-----------------------------------------------------------------------------
(* Tight without areas of one colour. *)

Small(p) == p.w <= MaxRectWidth /\ Area(p) <= MaxRectSize

\* What the encoder's constants are.
LEMMA TightConstants ==
  /\ MaxRectWidth \in Nat \ {0} /\ Tile \in Nat \ {0} /\ MinSolid \in Nat \ {0}
  /\ MaxRectSize \in Nat /\ MinSplit \in Nat /\ MaxRectSize >= MaxRectWidth
<1>1. /\ MaxRectWidth \in Nat \ {0} /\ Tile \in Nat \ {0} /\ MinSolid \in Nat \ {0}
      /\ MaxRectSize \in Nat /\ MinSplit \in Nat /\ MaxRectSize >= Tile * MaxRectWidth
  BY EncodingsAssumption
<1>2. MaxRectWidth * 1 <= MaxRectWidth * Tile
  BY <1>1, Multiple
<1>3. MaxRectWidth * 1 = MaxRectWidth /\ MaxRectWidth * Tile = Tile * MaxRectWidth /\ Tile * MaxRectWidth \in Nat
  BY <1>1
<1> QED BY <1>1, <1>2, <1>3

\* MaxRows rows of a width fit the buffer, and there is at least one.
LEMMA MaxRowsIs ==
  ASSUME NEW w \in Nat \ {0}
  PROVE  /\ MaxRows(w) \in Nat \ {0} /\ Smaller(w, MaxRectWidth) \in Nat \ {0}
         /\ \A v, h \in Nat : v <= Smaller(w, MaxRectWidth) /\ h <= MaxRows(w) =>
               v <= MaxRectWidth /\ v * h <= MaxRectSize
<1> DEFINE u == Smaller(w, MaxRectWidth)
           n == MaxRectSize \div u
           S == MaxRectSize
           W == MaxRectWidth
<1>1. S \in Nat /\ W \in Nat \ {0} /\ S >= W
  BY TightConstants
<1> HIDE DEF S, W
<1>2. u \in Nat \ {0} /\ u <= W
  BY <1>1 DEF Smaller, W
<1> HIDE DEF u
<1>3. n \in Nat /\ u * n <= S /\ S < u * n + u
  BY <1>1, <1>2, Quotient DEF S
<1>4. MaxRows(w) = n
  BY DEF MaxRows, u
<1> HIDE DEF n
<1>5. n # 0
  <2>1. CASE n = 0
    <3>1. u * 0 = 0
      BY <1>2
    <3> QED BY <1>1, <1>2, <1>3, <2>1, <3>1
  <2> QED BY <2>1
<1>6. ASSUME NEW v \in Nat, NEW h \in Nat, v <= u, h <= n
      PROVE  v <= W /\ v * h <= S
  <2>1. h * v <= h * u /\ h * v \in Int /\ h * u \in Int
    BY <1>2, <1>6, Multiple
  <2>2. u * h <= u * n /\ u * n \in Int
    BY <1>2, <1>3, <1>6, Multiple
  <2>3. h * u = u * h /\ v * h = h * v
    BY <1>2
  <2>4. h * v <= S
    BY <1>1, <1>3, <2>1, <2>2, <2>3
  <2> QED BY <1>1, <1>2, <1>6, <2>3, <2>4
<1> QED BY <1>2, <1>3, <1>4, <1>5, <1>6 DEF u, S, W

\* SendRectSimple cuts a rectangle into as many pieces as were announced, and
\* each of them fits the buffers and the format.
LEMMA SimpleTiles ==
  ASSUME NEW r \in Rectangle
  PROVE  /\ Tiles(Simple(r), r) /\ \A p \in ToSet(Simple(r)) : Small(p)
         /\ Len(Simple(r)) = NumCodedRects("Tight", r)
<1> DEFINE u == Smaller(r.w, MaxRectWidth)
           n == MaxRows(r.w)
<1>1. r.w \in Nat \ {0} /\ r.h \in Nat \ {0} /\ MaxRectWidth \in Nat \ {0} /\ MaxRectSize \in Nat
  BY RectangleIs, TightConstants
<1>2. /\ n \in Nat \ {0} /\ u \in Nat \ {0}
      /\ \A v, h \in Nat : v <= u /\ h <= n => v <= MaxRectWidth /\ v * h <= MaxRectSize
  BY <1>1, MaxRowsIs
<1>3. /\ NumCodedRects("Tight", r) = IF r.w > MaxRectWidth \/ Area(r) > MaxRectSize
                                     THEN Times(r.w, MaxRectWidth) * Times(r.h, n) ELSE 1
  BY DEF NumCodedRects
<1>4. Simple(r) = IF r.w > MaxRectWidth \/ Area(r) > MaxRectSize THEN Grid(r, u, n) ELSE <<r>>
  BY DEF Simple
<1>5. Times(r.w, u) = Times(r.w, MaxRectWidth)
  <2>1. CASE r.w > MaxRectWidth
    BY <1>1, <2>1 DEF Smaller
  <2>2. CASE ~(r.w > MaxRectWidth)
    <3>1. u = r.w /\ r.w <= MaxRectWidth /\ r.w <= r.w
      BY <1>1, <2>2 DEF Smaller
    <3>2. Times(r.w, r.w) = 1 /\ Times(r.w, MaxRectWidth) = 1
      BY <1>1, <3>1, TimesOnce
    <3> QED BY <3>1, <3>2
  <2> QED BY <2>1, <2>2
<1> HIDE DEF u, n
<1>6. CASE r.w > MaxRectWidth \/ Area(r) > MaxRectSize
  <2> DEFINE s == Grid(r, u, n)
  <2>1. Simple(r) = s /\ NumCodedRects("Tight", r) = Times(r.w, MaxRectWidth) * Times(r.h, n)
    BY <1>3, <1>4, <1>6
  <2>2. Tiles(s, r) /\ (\A p \in ToSet(s) : p.w <= u /\ p.h <= n) /\ Len(s) = Times(r.w, u) * Times(r.h, n)
    BY <1>2, GridTiles
  <2> HIDE DEF s
  <2>3. ASSUME NEW p \in ToSet(s) PROVE Small(p)
    <3>1. p \in Rectangle
      BY <2>2 DEF Tiles, ToSet
    <3>2. p.w \in Nat /\ p.h \in Nat
      BY <3>1, RectangleIs
    <3> QED BY <1>2, <2>2, <3>2 DEF Small, Area
  <2> QED BY <1>5, <2>1, <2>2, <2>3
<1>7. CASE ~(r.w > MaxRectWidth \/ Area(r) > MaxRectSize)
  <2>1. Simple(r) = <<r>> /\ NumCodedRects("Tight", r) = 1
    BY <1>3, <1>4, <1>7
  <2>2. Small(r)
    <3>1. Area(r) \in Nat
      BY <1>1 DEF Area
    <3> QED BY <1>1, <1>7, <3>1 DEF Small
  <2> QED BY <2>1, <2>2, TilesOne
<1> QED BY <1>6, <1>7

-----------------------------------------------------------------------------
(* Areas of one colour. *)

Within(a, r) == /\ a \in Rectangle /\ r.x <= a.x /\ r.y <= a.y
                /\ a.x + a.w <= r.x + r.w /\ a.y + a.h <= r.y + r.h

\* Only an extent without width or height has no area.
LEMMA NoCells ==
  ASSUME NEW r \in Extent
  PROVE  Area(r) = 0 <=> (r.w = 0 \/ r.h = 0)
BY RectangleIs DEF Area

\* What has no pixel has no two colours.
LEMMA NothingIsSolid ==
  ASSUME NEW r \in Extent, r.w = 0, NEW picture
  PROVE  Solid(picture, r)
<1>1. Tiles(<<>>, r)
  BY TilesOne
<1>2. Cells(r) = {}
  BY <1>1, TilesOne DEF Tiles, CoverOf
<1> QED BY <1>2 DEF Solid

\* All rows, or all columns, of an extent are the extent.
LEMMA SameRows ==
  ASSUME NEW a \in Extent
  PROVE  Rows(a, a.y, a.h) = a /\ Columns(a, a.x, a.w) = a
BY DEF Extent, Rows, Columns

\* Least and greatest of some numbers of an interval.
LEMMA Bounded ==
  ASSUME NEW lo \in Int, NEW hi \in Int, NEW T, T \subseteq lo..hi, T # {}
  PROVE  /\ Min(T) \in T /\ Max(T) \in T
         /\ Min(T) \in lo..hi /\ Max(T) \in lo..hi
<1>1. T \subseteq Int /\ \A t \in T : lo <= t /\ t <= hi
  OBVIOUS
<1>2. Min(T) \in T
  BY <1>1, MinIs
<1>3. Max(T) \in T
  BY <1>1, MaxIs
<1> QED BY <1>2, <1>3

\* ExtendSolidArea stays within the rectangle, and of one colour.
LEMMA ExtendedIs ==
  ASSUME NEW r \in Rectangle, NEW a, Within(a, r), NEW picture, Solid(picture, a)
  PROVE  Within(Extended(picture, r, a), r) /\ Solid(picture, Extended(picture, r, a))
<1> DEFINE rows(y, end) == Rows(a, y, end - y)
           S1 == {y \in r.y..a.y : Solid(picture, rows(y, a.y + a.h))}
           top == Min(S1)
           S2 == {y \in a.y + a.h .. r.y + r.h : Solid(picture, rows(top, y))}
           bottom == Max(S2)
           band == rows(top, bottom)
           cols(x, end) == Columns(band, x, end - x)
           S3 == {x \in r.x..a.x : Solid(picture, cols(x, a.x + a.w))}
           left == Min(S3)
           S4 == {x \in a.x + a.w .. r.x + r.w : Solid(picture, cols(left, x))}
           right == Max(S4)
<1>1. Extended(picture, r, a) = cols(left, right)
  BY DEF Extended
<1>2. /\ r.x \in Int /\ r.y \in Int /\ r.w \in Nat /\ r.h \in Nat
      /\ a \in Extent /\ a \in Rectangle /\ a.x \in Int /\ a.y \in Int /\ a.w \in Nat /\ a.h \in Nat
      /\ a.w > 0 /\ a.h > 0
      /\ r.x <= a.x /\ r.y <= a.y /\ a.x + a.w <= r.x + r.w /\ a.y + a.h <= r.y + r.h
  <2>1. a \in Rectangle /\ r.x <= a.x /\ r.y <= a.y /\ a.x + a.w <= r.x + r.w /\ a.y + a.h <= r.y + r.h
    BY DEF Within
  <2>2. a \in Extent /\ a.w > 0 /\ a.h > 0 /\ r \in Extent
    BY <2>1, RectangleIs
  <2> QED BY <2>1, <2>2, RectangleIs
<1>3. top \in S1 /\ top \in r.y..a.y
  <2>1. a.y \in r.y..a.y /\ (a.y + a.h) - a.y = a.h
    BY <1>2
  <2>2. rows(a.y, a.y + a.h) = a
    BY <1>2, <2>1, SameRows
  <2>3. a.y \in S1
    BY <2>1, <2>2
  <2>4. S1 \subseteq r.y..a.y /\ S1 # {}
    BY <2>3
  <2> HIDE DEF S1
  <2> QED BY <1>2, <2>4, Bounded
<1>4. Solid(picture, rows(top, a.y + a.h)) /\ top \in Int /\ r.y <= top /\ top <= a.y
  <2>1. Solid(picture, rows(top, a.y + a.h))
    <3> HIDE DEF top, rows
    <3> QED BY <1>3
  <2> HIDE DEF top
  <2> QED BY <1>2, <1>3, <2>1
<1> HIDE DEF top
<1>5. bottom \in S2 /\ bottom \in a.y + a.h .. r.y + r.h
  <2>1. a.y + a.h \in a.y + a.h .. r.y + r.h /\ a.y + a.h \in Int /\ r.y + r.h \in Int
    BY <1>2
  <2>2. S2 \subseteq a.y + a.h .. r.y + r.h /\ S2 # {}
    <3> HIDE DEF rows
    <3> QED BY <1>4, <2>1
  <2> HIDE DEF S2
  <2> QED BY <2>1, <2>2, Bounded
<1>6. Solid(picture, band) /\ bottom \in Int /\ a.y + a.h <= bottom /\ bottom <= r.y + r.h
  <2>1. Solid(picture, band)
    <3> HIDE DEF bottom, rows
    <3> QED BY <1>5
  <2> HIDE DEF bottom
  <2> QED BY <1>2, <1>5, <2>1
<1> HIDE DEF bottom
<1>7. band \in Extent /\ band.x = a.x /\ band.w = a.w /\ band.y = top /\ band.h = bottom - top
  <2>1. bottom - top \in Nat
    BY <1>2, <1>4, <1>6
  <2> QED BY <1>2, <1>4, <2>1, RowsAre
<1> HIDE DEF band
<1>8. left \in S3 /\ left \in r.x..a.x
  <2>1. a.x \in r.x..a.x /\ (a.x + a.w) - a.x = a.w
    BY <1>2
  <2>2. cols(a.x, a.x + a.w) = band
    BY <1>7, <2>1, SameRows
  <2>3. a.x \in S3
    BY <1>6, <2>1, <2>2
  <2>4. S3 \subseteq r.x..a.x /\ S3 # {}
    BY <2>3
  <2> HIDE DEF S3
  <2> QED BY <1>2, <2>4, Bounded
<1>9. Solid(picture, cols(left, a.x + a.w)) /\ left \in Int /\ r.x <= left /\ left <= a.x
  <2>1. Solid(picture, cols(left, a.x + a.w))
    <3> HIDE DEF left, cols
    <3> QED BY <1>8
  <2> HIDE DEF left
  <2> QED BY <1>2, <1>8, <2>1
<1> HIDE DEF left
<1>10. right \in S4 /\ right \in a.x + a.w .. r.x + r.w
  <2>1. a.x + a.w \in a.x + a.w .. r.x + r.w /\ a.x + a.w \in Int /\ r.x + r.w \in Int
    BY <1>2
  <2>2. S4 \subseteq a.x + a.w .. r.x + r.w /\ S4 # {}
    <3> HIDE DEF cols
    <3> QED BY <1>9, <2>1
  <2> HIDE DEF S4
  <2> QED BY <2>1, <2>2, Bounded
<1>11. Solid(picture, cols(left, right)) /\ right \in Int /\ a.x + a.w <= right /\ right <= r.x + r.w
  <2>1. Solid(picture, cols(left, right))
    <3> HIDE DEF right, cols
    <3> QED BY <1>10
  <2> HIDE DEF right
  <2> QED BY <1>2, <1>10, <2>1
<1> HIDE DEF right
<1> DEFINE e == cols(left, right)
<1>12. e \in Extent /\ e.x = left /\ e.w = right - left /\ e.y = top /\ e.h = bottom - top
  <2>1. right - left \in Nat
    BY <1>2, <1>9, <1>11
  <2> QED BY <1>7, <1>9, <2>1, RowsAre
<1> HIDE DEF e
<1>13. e.w > 0 /\ e.h > 0
  BY <1>2, <1>4, <1>6, <1>9, <1>11, <1>12
<1>14. e \in Rectangle
  BY <1>12, <1>13, RectangleIs
<1>15. Within(e, r)
  <2>1. /\ r.x <= e.x /\ r.y <= e.y
        /\ e.x + e.w <= r.x + r.w /\ e.y + e.h <= r.y + r.h
    BY <1>2, <1>4, <1>6, <1>9, <1>11, <1>12
  <2> QED BY <1>14, <2>1 DEF Within
<1> QED BY <1>1, <1>11, <1>15 DEF e


\* The first k rows of tiles of a, w wide.
Down(a, k, w) == [a EXCEPT !.w = w, !.h = Smaller(k * Tile, a.h)]

SolidWidths(picture, a, k, width) ==
    {w \in {Smaller(i * Tile, width) : i \in 1 .. Times(width, Tile)} : Solid(picture, Down(a, k, w))}

RunStep(picture, a, f, k) ==
    IF k = 0 THEN a.w
    ELSE LET solid == SolidWidths(picture, a, k, f[k - 1])
         IN IF solid = {} THEN 0 ELSE Max(solid)

\* The widths that FindBestSolidArea considers.
LEMMA SolidWidthsAre ==
  ASSUME NEW picture, NEW a, NEW k, NEW width \in Nat
  PROVE  LET s == SolidWidths(picture, a, k, width)
         IN s \subseteq 0..width /\ (s # {} => Max(s) \in s /\ Max(s) \in 0..width)
<1> DEFINE s == SolidWidths(picture, a, k, width)
<1>1. Tile \in Nat \ {0}
  BY TightConstants
<1>2. ASSUME NEW i \in 1 .. Times(width, Tile) PROVE Smaller(i * Tile, width) \in 0..width
  <2>1. i \in Nat
    OBVIOUS
  <2>2. i * Tile \in Nat
    BY <1>1, <2>1
  <2> QED BY <2>2 DEF Smaller
<1>3. s \subseteq 0..width
  BY <1>2 DEF SolidWidths
<1> HIDE DEF s
<1>4. ASSUME s # {} PROVE Max(s) \in s /\ Max(s) \in 0..width
  <2>1. 0 \in Int /\ width \in Int
    OBVIOUS
  <2> QED BY <1>3, <1>4, <2>1, Bounded
<1> QED BY <1>3, <1>4 DEF s

\* The tiles from the corner of an area down to a row.
LEMMA DownIs ==
  ASSUME NEW a \in Rectangle, NEW k \in Nat, NEW w \in Nat, w <= a.w
  PROVE  LET d == Down(a, k, w)
         IN d \in Extent /\ d.x = a.x /\ d.y = a.y /\ d.w = w /\ d.w <= a.w /\ d.h <= a.h
<1> DEFINE h == Smaller(k * Tile, a.h)
<1>1. Tile \in Nat /\ a \in Extent /\ a.h \in Nat
  BY TightConstants, RectangleIs
<1>2. k * Tile \in Nat
  BY <1>1
<1>3. h \in Nat /\ h <= a.h
  BY <1>1, <1>2 DEF Smaller
<1>4. Down(a, k, w) = [a EXCEPT !.w = w, !.h = h]
  BY DEF Down
<1> HIDE DEF h
<1> QED BY <1>1, <1>3, <1>4 DEF Extent

\* FindBestSolidArea finds an area of one colour in the corner of the given one.
LEMMA BestSolidIs ==
  ASSUME NEW picture, NEW a \in Rectangle, NEW b \in BestSolidArea(picture, a)
  PROVE  /\ b \in Extent /\ b.x = a.x /\ b.y = a.y /\ b.w <= a.w /\ b.h <= a.h
         /\ Solid(picture, b)
<1> DEFINE n == Times(a.h, Tile)
           rows == 1 .. n
           X == {0} \cup rows
           run == CHOOSE run : run = [k \in X |-> RunStep(picture, a, run, k)]
           m == [k \in X |-> k]
           D == [f \in [X -> Nat] |-> [k \in X |-> RunStep(picture, a, f, k)]]
<1>1. n \in Nat \ {0} /\ a.w \in Nat /\ a.h \in Nat \ {0} /\ X \subseteq Nat
  <2>1. a.w \in Nat /\ a.h \in Nat \ {0}
    BY RectangleIs
  <2>2. n \in Nat \ {0}
    BY <2>1, TightConstants, TimesAre
  <2> QED BY <2>1, <2>2
<1>2. PICK k \in rows : b = Down(a, k, run[k])
  BY DEF BestSolidArea, RunStep, SolidWidths, Down
<1> HIDE DEF n
<1>3. \A k1 \in rows : k1 - 1 \in X /\ k1 # 0 /\ k1 \in Nat
  BY <1>1
<1>4. m \in [X -> Nat]
  BY <1>1
<1>5. ASSUME NEW f \in [X -> Nat], NEW j \in X PROVE RunStep(picture, a, f, j) \in Nat
  <2>1. CASE j = 0
    BY <1>1, <2>1 DEF RunStep
  <2>2. CASE j # 0
    <3> DEFINE width == f[j - 1]
               solid == SolidWidths(picture, a, j, width)
    <3>1. j - 1 \in X
      BY <1>3, <2>2
    <3>2. width \in Nat
      BY <3>1
    <3>3. solid # {} => Max(solid) \in Nat
      <4> HIDE DEF width
      <4>1. solid # {} => Max(solid) \in 0..width
        BY <3>2, SolidWidthsAre
      <4> HIDE DEF solid
      <4> QED BY <3>2, <4>1
    <3> QED BY <2>2, <3>3 DEF RunStep
  <2> QED BY <2>1, <2>2
<1>6. D \in [[X -> Nat] -> [X -> Nat]]
  <2> HIDE DEF X
  <2> QED BY <1>5, Zenon
<1>7. Determined(X, Nat, m, D)
  <2>1. ASSUME NEW f \in [X -> Nat], NEW g \in [X -> Nat], NEW j \in X,
               \A z \in X : m[z] < m[j] => f[z] = g[z]
        PROVE  D[f][j] = D[g][j]
    <3>1. CASE j = 0
      BY <3>1 DEF RunStep
    <3>2. CASE j # 0
      <4>1. j - 1 \in X /\ j - 1 < j
        BY <1>1, <1>3, <3>2
      <4>2. f[j - 1] = g[j - 1]
        BY <2>1, <4>1
      <4> QED BY <4>2 DEF RunStep
    <3> QED BY <3>1, <3>2
  <2> HIDE DEF X, m, D
  <2> QED BY <2>1 DEF Determined
<1>8. PICK f \in [X -> Nat] : Solves(X, D, f)
  <2>1. Nat # {}
    OBVIOUS
  <2> HIDE DEF X, m, D
  <2> QED BY <1>4, <1>6, <1>7, <2>1, Recursion, Zenon
<1>9. f = [j \in X |-> RunStep(picture, a, f, j)]
  BY <1>8, Zenon DEF Solves
<1>10. run = [j \in X |-> RunStep(picture, a, run, j)]
  <2> HIDE DEF X
  <2> QED BY <1>9, Zenon
<1> HIDE DEF run, D, m
<1>11. \A j \in X : run[j] = RunStep(picture, a, run, j)
  <2> HIDE DEF X
  <2> QED BY <1>10, Zenon
<1> DEFINE Good(j) == /\ run[j] \in Nat /\ run[j] <= a.w
                      /\ Solid(picture, Down(a, j, run[j]))
<1>12. ASSUME NEW j \in rows, run[j - 1] \in Nat, run[j - 1] <= a.w PROVE Good(j)
  <2> DEFINE width == run[j - 1]
             solid == SolidWidths(picture, a, j, width)
  <2>1. run[j] = IF solid = {} THEN 0 ELSE Max(solid)
    BY <1>3, <1>11 DEF RunStep
  <2>2. width \in Nat /\ width <= a.w
    BY <1>12
  <2> HIDE DEF width
  <2>3. solid # {} => Max(solid) \in solid /\ Max(solid) \in 0..width
    BY <2>2, SolidWidthsAre
  <2>4. CASE solid = {}
    <3>1. run[j] = 0 /\ 0 \in Nat /\ 0 <= a.w
      BY <1>1, <2>1, <2>4
    <3>2. Down(a, j, 0) \in Extent /\ Down(a, j, 0).w = 0
      <4>1. j \in Nat /\ 0 \in Nat /\ 0 <= a.w
        BY <1>3, <3>1
      <4> HIDE DEF rows, X, solid, width, Good
      <4> QED BY <4>1, DownIs
    <3>3. Solid(picture, Down(a, j, 0))
      BY <3>2, NothingIsSolid
    <3> QED BY <3>1, <3>3
  <2>5. CASE solid # {}
    <3>1. run[j] = Max(solid) /\ run[j] \in solid /\ run[j] \in 0..width
      BY <2>1, <2>3, <2>5
    <3>2. Solid(picture, Down(a, j, run[j]))
      BY <3>1 DEF SolidWidths
    <3>3. run[j] \in Nat /\ run[j] <= a.w
      <4> HIDE DEF solid
      <4> QED BY <1>1, <2>2, <3>1
    <3> QED BY <3>2, <3>3
  <2> QED BY <2>4, <2>5
<1>13. rows \subseteq {j \in rows : Good(j)}
  <2> DEFINE G == {j \in rows : Good(j)}
  <2>1. run[0] \in Nat /\ run[0] <= a.w
    BY <1>1, <1>11 DEF RunStep
  <2>2. 1 \in G
    <3>1. 1 \in rows /\ 1 - 1 = 0
      BY <1>1
    <3> HIDE DEF rows, Good
    <3> QED BY <1>12, <2>1, <3>1
  <2>3. ASSUME NEW i \in 1..n, i \in G, i < n PROVE i + 1 \in G
    <3>1. i + 1 \in rows /\ (i + 1) - 1 = i
      BY <1>1, <2>3
    <3>2. run[i] \in Nat /\ run[i] <= a.w
      BY <2>3
    <3> HIDE DEF rows, Good
    <3> QED BY <1>12, <3>1, <3>2
  <2> HIDE DEF G
  <2>4. 1..n \subseteq G
    BY <1>1, <2>2, <2>3, UpTo
  <2> QED BY <2>4 DEF G
<1>14. k \in Nat /\ run[k] \in Nat /\ run[k] <= a.w /\ Solid(picture, b)
  BY <1>2, <1>3, <1>13
<1> HIDE DEF rows, Good, X
<1> QED BY <1>2, <1>14, DownIs


\* The columns and rows at which the search looks.
LEMMA StepsAre ==
  ASSUME NEW from \in Int, NEW n \in Nat \ {0}, NEW x \in Steps(from, n)
  PROVE  x \in Int /\ from <= x /\ x < from + n
<1>1. Tile \in Nat \ {0} /\ n - 1 \in Nat
  BY TightConstants
<1> DEFINE q == (n - 1) \div Tile
<1>2. q \in Nat /\ Tile * q <= n - 1
  BY <1>1, Quotient
<1>3. PICK k \in 0..q : x = from + k * Tile
  BY DEF Steps
<1> HIDE DEF q
<1>4. k \in Nat /\ k <= q /\ q \in Int
  BY <1>2, <1>3
<1>5. Tile * k <= Tile * q /\ Tile * k \in Int /\ Tile * q \in Int
  BY <1>1, <1>4, Multiple
<1>6. k * Tile = Tile * k /\ k * Tile >= 0
  BY <1>1, <1>4
<1> QED BY <1>2, <1>3, <1>5, <1>6

\* An area that is large enough, or all of a rectangle, is not empty.
LEMMA HasExtent ==
  ASSUME NEW r \in Rectangle, NEW a \in Extent, Area(a) = Area(r) \/ Area(a) >= MinSolid
  PROVE  a \in Rectangle
<1>1. MinSolid \in Nat \ {0}
  BY TightConstants
<1>2. r \in Extent /\ a.w \in Nat /\ a.h \in Nat /\ r.w > 0 /\ r.h > 0 /\ r.w \in Nat /\ r.h \in Nat
  BY RectangleIs
<1>3. Area(r) # 0
  BY <1>2, NoCells
<1>4. Area(a) # 0
  BY <1>1, <1>3
<1>5. a.w # 0 /\ a.h # 0
  BY <1>4, NoCells
<1> QED BY <1>2, <1>5, RectangleIs

\* An area of one colour lies in the rectangle in which it was looked for.
LEMMA SolidAreasAre ==
  ASSUME NEW r \in Rectangle, NEW y \in Int, r.y <= y, y < r.y + r.h,
         NEW picture, NEW b \in SolidAreas(picture, r, y)
  PROVE  Within(b, r) /\ Solid(picture, b)
<1> DEFINE below(x) == [x |-> x, w |-> r.x + r.w - x, y |-> y, h |-> r.y + r.h - y]
           large(x) == {a \in BestSolidArea(picture, below(x)) :
                           Area(a) = Area(r) \/ Area(a) >= MinSolid}
<1>1. PICK x \in Steps(r.x, r.w) : \E a \in large(x) : b = Extended(picture, r, a)
  BY DEF SolidAreas
<1>a. PICK a \in large(x) : b = Extended(picture, r, a)
  BY <1>1
<1>2. r.x \in Int /\ r.y \in Int /\ r.w \in Nat \ {0} /\ r.h \in Nat \ {0}
  BY RectangleIs
<1>3. x \in Int /\ r.x <= x /\ x < r.x + r.w
  BY <1>2, StepsAre
<1> DEFINE z == below(x)
<1>4. z \in Rectangle /\ z.x = x /\ z.y = y /\ z.w = r.x + r.w - x /\ z.h = r.y + r.h - y
  <2>1. r.x + r.w - x \in Nat \ {0} /\ r.y + r.h - y \in Nat \ {0}
    BY <1>2, <1>3
  <2> QED BY <1>3, <2>1 DEF Rectangle
<1>5. a \in BestSolidArea(picture, z) /\ (Area(a) = Area(r) \/ Area(a) >= MinSolid)
  BY <1>a
<1> HIDE DEF z, large
<1>6. a \in Extent /\ a.x = z.x /\ a.y = z.y /\ a.w <= z.w /\ a.h <= z.h /\ Solid(picture, a)
  BY <1>4, <1>5, BestSolidIs
<1>7. a \in Rectangle
  BY <1>5, <1>6, HasExtent
<1>8. Within(a, r)
  <2>1. a.w \in Nat /\ a.h \in Nat
    BY <1>6, RectangleIs
  <2>2. r.x <= a.x /\ r.y <= a.y /\ a.x + a.w <= r.x + r.w /\ a.y + a.h <= r.y + r.h
    BY <1>2, <1>3, <1>4, <1>6, <2>1
  <2> QED BY <1>7, <2>2 DEF Within
<1> QED BY <1>a, <1>6, <1>8, ExtendedIs

-----------------------------------------------------------------------------
(* A rectangle cut around one of the areas in it. *)

Covering(s, C) == s \in Seq(Rectangle) /\ Apart(s) /\ CoverOf(s) = C

\* Lists of pieces that cover two sets apart cover both together.
LEMMA CoveringJoin ==
  ASSUME NEW s, NEW t, NEW C, NEW D, Covering(s, C), Covering(t, D), C \cap D = {}
  PROVE  Covering(s \o t, C \cup D)
<1>1. s \in Seq(Rectangle) /\ t \in Seq(Rectangle) /\ CoverOf(s) = C /\ CoverOf(t) = D
      /\ Apart(s) /\ Apart(t)
  BY DEF Covering
<1>2. s \o t \in Seq(Rectangle)
  BY <1>1, Join
<1>3. CoverOf(s \o t) = C \cup D
  BY <1>1, JoinCovers
<1>4. Apart(s \o t)
  BY <1>1, JoinCovers
<1> QED BY <1>2, <1>3, <1>4 DEF Covering

Above(r, a)  == Rows(r, r.y, a.y - r.y)
LeftOf(r, a) == Columns(a, r.x, a.x - r.x)
BelowOf(r, a) == Rows(r, a.y + a.h, r.y + r.h - a.y - a.h)

\* The four parts of a rectangle around an area in it.
LEMMA PartsAre ==
  ASSUME NEW r \in Rectangle, NEW a, Within(a, r)
  PROVE  /\ Above(r, a) \in Extent /\ LeftOf(r, a) \in Extent /\ a \in Extent
         /\ RightOf(r, a) \in Extent /\ BelowOf(r, a) \in Extent
         /\ Above(r, a).w = r.w /\ Above(r, a).h = a.y - r.y
         /\ LeftOf(r, a).w + a.w <= r.w /\ LeftOf(r, a).h <= r.h
         /\ RightOf(r, a).w + a.w <= r.w /\ RightOf(r, a).h <= r.h
         /\ BelowOf(r, a).w = r.w /\ BelowOf(r, a).h + a.h <= r.h
         /\ a.w > 0 /\ a.h > 0
<1>1. /\ r.x \in Int /\ r.y \in Int /\ r.w \in Nat /\ r.h \in Nat /\ r \in Extent
      /\ a \in Extent /\ a.x \in Int /\ a.y \in Int /\ a.w \in Nat /\ a.h \in Nat
      /\ a.w > 0 /\ a.h > 0
      /\ r.x <= a.x /\ r.y <= a.y /\ a.x + a.w <= r.x + r.w /\ a.y + a.h <= r.y + r.h
  <2>1. a \in Rectangle /\ r.x <= a.x /\ r.y <= a.y /\ a.x + a.w <= r.x + r.w /\ a.y + a.h <= r.y + r.h
    BY DEF Within
  <2>2. a \in Extent /\ a.w > 0 /\ a.h > 0 /\ r \in Extent
    BY <2>1, RectangleIs
  <2> QED BY <2>1, <2>2, RectangleIs
<1>2. /\ a.y - r.y \in Nat /\ a.x - r.x \in Nat /\ r.x + r.w - a.x - a.w \in Nat
      /\ r.y + r.h - a.y - a.h \in Nat /\ a.y + a.h \in Int /\ a.x + a.w \in Int
  BY <1>1
<1>3. /\ Above(r, a) \in Extent /\ Above(r, a).x = r.x /\ Above(r, a).y = r.y
      /\ Above(r, a).w = r.w /\ Above(r, a).h = a.y - r.y
  BY <1>1, <1>2, RowsAre DEF Above
<1>4. /\ BelowOf(r, a) \in Extent /\ BelowOf(r, a).x = r.x /\ BelowOf(r, a).y = a.y + a.h
      /\ BelowOf(r, a).w = r.w /\ BelowOf(r, a).h = r.y + r.h - a.y - a.h
  BY <1>1, <1>2, RowsAre DEF BelowOf
<1>5. /\ LeftOf(r, a) \in Extent /\ LeftOf(r, a).x = r.x /\ LeftOf(r, a).y = a.y
      /\ LeftOf(r, a).w = a.x - r.x /\ LeftOf(r, a).h = a.h
  BY <1>1, <1>2, RowsAre DEF LeftOf
<1>6. /\ RightOf(r, a) \in Extent /\ RightOf(r, a).x = a.x + a.w /\ RightOf(r, a).y = a.y
      /\ RightOf(r, a).w = r.x + r.w - a.x - a.w /\ RightOf(r, a).h = a.h
  <2>1. RightOf(r, a) = Columns(a, a.x + a.w, r.x + r.w - a.x - a.w)
    BY DEF RightOf, Columns
  <2> QED BY <1>1, <1>2, <2>1, RowsAre
<1>7. /\ (a.x - r.x) + a.w <= r.w /\ a.h <= r.h /\ (r.x + r.w - a.x - a.w) + a.w <= r.w
      /\ (r.y + r.h - a.y - a.h) + a.h <= r.h
  BY <1>1
<1> QED BY <1>1, <1>3, <1>4, <1>5, <1>6, <1>7

\* Whatever is cut into what is above, to the left, to the right and below
\* of an area makes up the rectangle with it.
LEMMA CutAround ==
  ASSUME NEW r \in Rectangle, NEW a, Within(a, r),
         NEW s1, NEW s2, NEW s4, NEW s5,
         Tiles(s1, Above(r, a)), Tiles(s2, LeftOf(r, a)), Tiles(s4, RightOf(r, a)), Tiles(s5, BelowOf(r, a))
  PROVE  Tiles(s1 \o s2 \o <<a>> \o s4 \o s5, r)
<1>1. /\ r.x \in Int /\ r.y \in Int /\ r.w \in Nat /\ r.h \in Nat /\ r \in Extent
      /\ a \in Rectangle /\ a \in Extent /\ a.x \in Int /\ a.y \in Int /\ a.w \in Nat /\ a.h \in Nat
      /\ a.w > 0 /\ a.h > 0
      /\ r.x <= a.x /\ r.y <= a.y /\ a.x + a.w <= r.x + r.w /\ a.y + a.h <= r.y + r.h
  <2>1. a \in Rectangle /\ r.x <= a.x /\ r.y <= a.y /\ a.x + a.w <= r.x + r.w /\ a.y + a.h <= r.y + r.h
    BY DEF Within
  <2>2. a \in Extent /\ a.w > 0 /\ a.h > 0 /\ r \in Extent
    BY <2>1, RectangleIs
  <2> QED BY <2>1, <2>2, RectangleIs
\* The rows of r: above, beside and below a.
<1> DEFINE n1 == a.y - r.y
           rest == Rows(r, a.y, r.y + r.h - a.y)
           band == Rows(r, a.y, a.h)
           ext  == Columns(band, a.x, r.x + r.w - a.x)
<1>2. /\ n1 \in Nat /\ n1 <= r.h /\ r.y + n1 = a.y /\ r.h - n1 = r.y + r.h - a.y
      /\ r.y + r.h - a.y \in Nat /\ a.h <= r.y + r.h - a.y
      /\ (r.y + r.h - a.y) - a.h = r.y + r.h - a.y - a.h
      /\ a.x - r.x \in Nat /\ a.x - r.x <= r.w /\ r.x + (a.x - r.x) = a.x /\ r.w - (a.x - r.x) = r.x + r.w - a.x
      /\ r.x + r.w - a.x \in Nat /\ a.w <= r.x + r.w - a.x /\ (r.x + r.w - a.x) - a.w = r.x + r.w - a.x - a.w
  BY <1>1
<1>3. Splits(r, Above(r, a), rest)
  <2>1. Splits(r, Rows(r, r.y, n1), Rows(r, r.y + n1, r.h - n1))
    BY <1>1, <1>2, RowsSplit
  <2> QED BY <1>2, <2>1 DEF Above
<1>4. Splits(rest, band, BelowOf(r, a))
  <2>1. rest \in Extent /\ rest.y = a.y /\ rest.h = r.y + r.h - a.y
    BY <1>1, <1>2, RowsAre
  <2>2. Rows(rest, rest.y, a.h) = band /\ Rows(rest, rest.y + a.h, rest.h - a.h) = BelowOf(r, a)
    <3>1. /\ \A y, n : Rows(rest, y, n) = Rows(r, y, n)
      BY <1>1 DEF Rows, Extent
    <3> HIDE DEF rest
    <3> QED BY <1>2, <2>1, <3>1 DEF BelowOf
  <2> HIDE DEF rest, band
  <2>3. Splits(rest, Rows(rest, rest.y, a.h), Rows(rest, rest.y + a.h, rest.h - a.h))
    BY <1>1, <1>2, <2>1, RowsSplit
  <2> QED BY <2>2, <2>3
<1>5. /\ band \in Extent /\ band.x = r.x /\ band.w = r.w /\ band.y = a.y /\ band.h = a.h
  BY <1>1, RowsAre
<1>6. Splits(band, LeftOf(r, a), ext)
  <2>1. Columns(band, band.x, a.x - r.x) = LeftOf(r, a)
    BY <1>1, <1>5 DEF Columns, LeftOf, Extent
  <2> HIDE DEF band
  <2>2. Splits(band, Columns(band, band.x, a.x - r.x), Columns(band, band.x + (a.x - r.x), band.w - (a.x - r.x)))
    BY <1>2, <1>5, ColumnsSplit
  <2> QED BY <1>2, <1>5, <2>1, <2>2
<1>7. Splits(ext, a, RightOf(r, a))
  <2>1. ext \in Extent /\ ext.x = a.x /\ ext.w = r.x + r.w - a.x /\ ext.y = a.y /\ ext.h = a.h
    <3> HIDE DEF band
    <3> QED BY <1>1, <1>2, <1>5, RowsAre
  <2> HIDE DEF ext
  <2>2. Columns(ext, ext.x, a.w) = a /\ Columns(ext, ext.x + a.w, ext.w - a.w) = RightOf(r, a)
    BY <1>1, <1>2, <2>1 DEF Columns, RightOf, Extent
  <2>3. Splits(ext, Columns(ext, ext.x, a.w), Columns(ext, ext.x + a.w, ext.w - a.w))
    BY <1>1, <1>2, <2>1, ColumnsSplit
  <2> QED BY <2>2, <2>3
<1> HIDE DEF rest, band, ext
<1> DEFINE A == Cells(Above(r, a))
           B == Cells(LeftOf(r, a))
           C == Cells(a)
           D == Cells(RightOf(r, a))
           E == Cells(BelowOf(r, a))
<1>8. /\ Cells(r) = (((A \cup B) \cup C) \cup D) \cup E
      /\ A \cap B = {} /\ (A \cup B) \cap C = {} /\ ((A \cup B) \cup C) \cap D = {}
      /\ (((A \cup B) \cup C) \cup D) \cap E = {}
  BY <1>3, <1>4, <1>6, <1>7, Zenon DEF Splits
<1>9. Covering(s1, A) /\ Covering(s2, B) /\ Covering(<<a>>, C) /\ Covering(s4, D) /\ Covering(s5, E)
  <2>1. Tiles(<<a>>, a)
    BY <1>1, TilesOne
  <2> QED BY <2>1 DEF Tiles, Covering
<1> HIDE DEF A, B, C, D, E
<1>10. Covering(s1 \o s2, A \cup B)
  BY <1>8, <1>9, CoveringJoin
<1>11. Covering(s1 \o s2 \o <<a>>, (A \cup B) \cup C)
  BY <1>8, <1>9, <1>10, CoveringJoin
<1>12. Covering(s1 \o s2 \o <<a>> \o s4, ((A \cup B) \cup C) \cup D)
  BY <1>8, <1>9, <1>11, CoveringJoin
<1>13. Covering(s1 \o s2 \o <<a>> \o s4 \o s5, (((A \cup B) \cup C) \cup D) \cup E)
  BY <1>8, <1>9, <1>12, CoveringJoin
<1> QED BY <1>8, <1>13 DEF Covering, Tiles

-----------------------------------------------------------------------------
(* The search for areas of one colour. *)

\* The search goes on in a smaller rectangle or in the same one further down.
Depth(t) ==
    LET P == t.r.w + t.r.h
    IN P * (P + 1) + (IF t.from >= t.r.h THEN 0 ELSE t.r.h - t.from)

\* What is left to search, by its fields.
LEMMA TaskIs ==
  ASSUME NEW t \in Task
  PROVE  /\ t.r \in Rectangle /\ t.r \in Extent /\ t.from \in Nat /\ t.rows \in Nat \ {0}
         /\ t.r.x \in Int /\ t.r.y \in Int /\ t.r.w \in Nat \ {0} /\ t.r.h \in Nat \ {0}
<1>1. t.r \in Rectangle /\ t.from \in Nat /\ t.rows \in Nat \ {0}
  BY DEF Task
<1> QED BY <1>1, RectangleIs

\* The measure of a search.
LEMMA DepthIs ==
  ASSUME NEW t \in Task
  PROVE  LET P == t.r.w + t.r.h
         IN /\ P \in Nat /\ Depth(t) \in Nat
            /\ P * (P + 1) <= Depth(t) /\ Depth(t) < P * (P + 1) + (P + 1)
            /\ P * (P + 1) \in Nat /\ P * (P + 1) + (P + 1) = (P + 1) * (P + 1)
<1> DEFINE P == t.r.w + t.r.h
           k == IF t.from >= t.r.h THEN 0 ELSE t.r.h - t.from
<1>1. P \in Nat /\ k \in Nat /\ k < P + 1
  BY TaskIs
<1>2. Depth(t) = P * (P + 1) + k
  BY DEF Depth
<1> HIDE DEF P, k
<1>3. P * (P + 1) \in Nat /\ P * (P + 1) + (P + 1) = (P + 1) * (P + 1)
  BY <1>1
<1>4. P * (P + 1) + k \in Nat /\ P * (P + 1) <= P * (P + 1) + k /\ P * (P + 1) + k < P * (P + 1) + (P + 1)
  BY <1>1, <1>3
<1> QED BY <1>1, <1>2, <1>3, <1>4 DEF P

\* A search in a smaller rectangle is less deep.
LEMMA SmallerTask ==
  ASSUME NEW t \in Task, NEW q \in Task, q.r.w + q.r.h < t.r.w + t.r.h
  PROVE  Depth(q) < Depth(t)
<1> DEFINE P == t.r.w + t.r.h
           Q == q.r.w + q.r.h
<1>1. P \in Nat /\ Q \in Nat /\ Q < P
  BY DepthIs
<1>2. /\ Depth(t) \in Nat /\ P * (P + 1) <= Depth(t) /\ P * (P + 1) \in Nat
  BY DepthIs
<1>3. /\ Depth(q) \in Nat /\ Depth(q) < Q * (Q + 1) + (Q + 1) /\ Q * (Q + 1) + (Q + 1) = (Q + 1) * (Q + 1)
  BY DepthIs
<1> HIDE DEF P, Q
<1>4. Q + 1 \in Nat /\ Q + 1 <= P /\ P + 1 \in Int /\ Q + 1 <= P + 1
  BY <1>1
<1> DEFINE u == Q + 1
<1> HIDE DEF u
<1>5. u * u <= u * (P + 1) /\ u * u \in Int /\ u * (P + 1) \in Int
  <2>1. u \in Nat /\ u <= P + 1 /\ P + 1 \in Int
    BY <1>4 DEF u
  <2> QED BY <2>1, Multiple
<1>6. (P + 1) * u <= (P + 1) * P /\ (P + 1) * u \in Int /\ (P + 1) * P \in Int
  <2>1. P + 1 \in Nat /\ u \in Int /\ P \in Int /\ u <= P
    BY <1>1, <1>4 DEF u
  <2> QED BY <2>1, Multiple
<1>7. (P + 1) * u = u * (P + 1) /\ (P + 1) * P = P * (P + 1)
  <2>1. u \in Int
    BY <1>4 DEF u
  <2> QED BY <1>1, <2>1
<1>8. Depth(q) < u * u
  BY <1>3 DEF u
<1> QED BY <1>2, <1>3, <1>5, <1>6, <1>7, <1>8

\* A search that goes on further down is less deep.
LEMMA LaterTask ==
  ASSUME NEW t \in Task, NEW q \in Task, q.r = t.r, t.from < t.r.h, t.from < q.from
  PROVE  Depth(q) < Depth(t)
<1> DEFINE P == t.r.w + t.r.h
           k == IF t.from >= t.r.h THEN 0 ELSE t.r.h - t.from
           j == IF q.from >= t.r.h THEN 0 ELSE t.r.h - q.from
<1>1. P \in Nat /\ k \in Nat /\ j \in Nat /\ j < k
  BY TaskIs
<1>2. Depth(t) = P * (P + 1) + k /\ Depth(q) = P * (P + 1) + j
  BY DEF Depth
<1>3. P * (P + 1) \in Nat
  BY DepthIs
<1> HIDE DEF P, k, j
<1> QED BY <1>1, <1>2, <1>3

\* What becomes of a part beside or below an area of one colour.
RestOf(f, part) ==
    IF Area(part) = 0 THEN <<>>
    ELSE IF Area(part) < MinSplit THEN Simple(part)
    ELSE f[Search(part, 0, MaxRows(part.w))]

AboveOf(r, a) == IF a.y = r.y THEN <<>> ELSE Simple(Above(r, a))

Found(picture, t) == SolidAreas(picture, t.r, t.r.y + t.from)

\* The search of a whole rectangle.
LEMMA WholeTask ==
  ASSUME NEW r \in Rectangle
  PROVE  Search(r, 0, MaxRows(r.w)) \in Task /\ Search(r, 0, MaxRows(r.w)).r = r
<1>1. r.w \in Nat \ {0}
  BY RectangleIs
<1>2. MaxRows(r.w) \in Nat \ {0}
  BY <1>1, MaxRowsIs
<1> QED BY <1>2 DEF Search, Task

\* No rows are left: what remains is sent without a search.
LEMMA SearchEnds ==
  ASSUME NEW t \in Task, NEW picture, NEW f, t.from >= t.r.h
  PROVE  SearchFrom(picture, f, t) = Simple(t.r)
BY DEF SearchFrom

\* The buffer is full: the rows above are sent, and the search goes on below.
LEMMA SearchBelow ==
  ASSUME NEW t \in Task, t.from < t.r.h, t.from >= t.rows
  PROVE  LET u == Rows(t.r, t.r.y, t.rows)
             q == Search(Lower(t.r, t.rows), t.from - t.rows, t.rows)
         IN /\ u \in Rectangle /\ q \in Task /\ Depth(q) < Depth(t) /\ Splits(t.r, u, q.r)
            /\ \A picture, f : SearchFrom(picture, f, t) = Simple(u) \o f[q]
<1> DEFINE r == t.r
           n == t.rows
           u == Rows(r, r.y, n)
           v == Lower(r, n)
           q == Search(v, t.from - n, n)
<1>1. /\ r \in Rectangle /\ r \in Extent /\ t.from \in Nat /\ n \in Nat \ {0}
      /\ r.x \in Int /\ r.y \in Int /\ r.w \in Nat \ {0} /\ r.h \in Nat \ {0}
  BY TaskIs
<1>2. r.h - n \in Nat /\ r.h - n > 0 /\ r.y + n \in Int /\ n <= r.h /\ t.from - n \in Nat /\ r.h - n < r.h
  BY <1>1
<1>3. /\ u \in Extent /\ u.w = r.w /\ u.h = n /\ v \in Extent /\ v.w = r.w /\ v.h = r.h - n
      /\ Splits(r, u, v)
  BY <1>1, <1>2, RowsAre, RowsSplit DEF Lower
<1>4. \A picture, f : SearchFrom(picture, f, t) = Simple(u) \o f[q]
  <2>1. ~(t.from >= r.h)
    BY <1>1
  <2> QED BY <2>1 DEF SearchFrom
<1> HIDE DEF u, v
<1>5. u \in Rectangle /\ v \in Rectangle
  BY <1>1, <1>2, <1>3, RectangleIs
<1>6. q \in Task /\ q.r = v
  BY <1>1, <1>2, <1>5 DEF Search, Task
<1>7. Depth(q) < Depth(t)
  <2>1. q.r.w + q.r.h < t.r.w + t.r.h
    BY <1>1, <1>2, <1>3, <1>6
  <2> HIDE DEF q
  <2> QED BY <1>6, <2>1, SmallerTask
<1> QED BY <1>3, <1>4, <1>5, <1>6, <1>7 DEF u, v

\* No area at these rows: the search goes on at the next ones.
LEMMA SearchOn ==
  ASSUME NEW t \in Task, t.from < t.r.h, ~(t.from >= t.rows), NEW picture, Found(picture, t) = {}
  PROVE  LET q == Search(t.r, t.from + Tile, t.rows)
         IN /\ q \in Task /\ Depth(q) < Depth(t) /\ q.r = t.r
            /\ \A f : SearchFrom(picture, f, t) = f[q]
<1> DEFINE q == Search(t.r, t.from + Tile, t.rows)
<1>1. \A f : SearchFrom(picture, f, t) = f[q]
  <2>1. ~(t.from >= t.r.h)
    BY TaskIs
  <2> QED BY <2>1 DEF SearchFrom, Found
<1>2. t.from + Tile \in Nat /\ t.from < t.from + Tile
  BY TaskIs, TightConstants
<1>3. q \in Task /\ q.r = t.r /\ q.from = t.from + Tile
  BY <1>2, TaskIs DEF Search, Task
<1> HIDE DEF q
<1>4. Depth(q) < Depth(t)
  BY <1>2, <1>3, LaterTask
<1> QED BY <1>1, <1>3, <1>4 DEF q

\* An area was found: it is sent between its four rests.
LEMMA SearchAround ==
  ASSUME NEW t \in Task, t.from < t.r.h, ~(t.from >= t.rows), NEW picture, Found(picture, t) # {}
  PROVE  LET a == CHOOSE a \in Found(picture, t) : TRUE
         IN /\ Within(a, t.r) /\ Solid(picture, a)
            /\ \A f : SearchFrom(picture, f, t) =
                  AboveOf(t.r, a) \o RestOf(f, LeftOf(t.r, a)) \o <<a>>
                    \o RestOf(f, RightOf(t.r, a)) \o RestOf(f, BelowOf(t.r, a))
<1> DEFINE a == CHOOSE a \in Found(picture, t) : TRUE
<1>1. \A f : SearchFrom(picture, f, t) =
                  AboveOf(t.r, a) \o RestOf(f, LeftOf(t.r, a)) \o <<a>>
                    \o RestOf(f, RightOf(t.r, a)) \o RestOf(f, BelowOf(t.r, a))
  <2>1. ~(t.from >= t.r.h)
    BY TaskIs
  <2> QED BY <2>1 DEF SearchFrom, Found, AboveOf, RestOf, Above, LeftOf, BelowOf
<1>2. a \in Found(picture, t)
  OBVIOUS
<1>3. t.r.y + t.from \in Int /\ t.r.y <= t.r.y + t.from /\ t.r.y + t.from < t.r.y + t.r.h /\ t.r \in Rectangle
  BY TaskIs
<1> HIDE DEF a
<1>4. Within(a, t.r) /\ Solid(picture, a)
  BY <1>2, <1>3, SolidAreasAre DEF Found
<1> QED BY <1>1, <1>4 DEF a

\* What lies above an area is sent without a search.
LEMMA AboveIs ==
  ASSUME NEW r \in Rectangle, NEW a, Within(a, r)
  PROVE  Tiles(AboveOf(r, a), Above(r, a)) /\ \A p \in ToSet(AboveOf(r, a)) : Small(p)
<1>1. /\ Above(r, a) \in Extent /\ Above(r, a).w = r.w /\ Above(r, a).h = a.y - r.y
      /\ r.w \in Nat \ {0} /\ a.y \in Int /\ r.y \in Int
  <2>1. a \in Rectangle
    BY DEF Within
  <2> QED BY <2>1, PartsAre, RectangleIs
<1>2. CASE a.y = r.y
  <2>1. Above(r, a).h = 0
    BY <1>1, <1>2
  <2>2. Tiles(<<>>, Above(r, a)) /\ ToSet(<<>>) = {}
    BY <1>1, <2>1, TilesOne
  <2> QED BY <1>2, <2>2 DEF AboveOf
<1>3. CASE a.y # r.y
  <2>1. Above(r, a).h \in Nat
    BY <1>1, RectangleIs
  <2>2. Above(r, a).h > 0 /\ Above(r, a).w > 0
    BY <1>1, <1>3, <2>1
  <2>3. Above(r, a) \in Rectangle
    BY <1>1, <2>2, RectangleIs
  <2> QED BY <1>3, <2>3, SimpleTiles DEF AboveOf
<1> QED BY <1>2, <1>3

\* A rest that is not empty is a rectangle.
LEMMA RestIs ==
  ASSUME NEW part \in Extent, Area(part) # 0
  PROVE  /\ part \in Rectangle
         /\ Search(part, 0, MaxRows(part.w)) \in Task /\ Search(part, 0, MaxRows(part.w)).r = part
<1>1. part.w # 0 /\ part.h # 0 /\ part.w \in Nat /\ part.h \in Nat
  BY NoCells, RectangleIs
<1>2. part \in Rectangle
  BY <1>1, RectangleIs
<1> QED BY <1>2, WholeTask


\* SendRectSimple cuts rectangles into rectangles.
LEMMA SimpleType ==
  ASSUME NEW r \in Rectangle
  PROVE  Simple(r) \in Seq(Rectangle)
BY SimpleTiles DEF Tiles

\* So does what is done with a rest.
LEMMA RestTyped ==
  ASSUME NEW f \in [Task -> Seq(Rectangle)], NEW part \in Extent
  PROVE  RestOf(f, part) \in Seq(Rectangle)
<1>1. CASE Area(part) = 0
  <2>1. <<>> \in Seq(Rectangle)
    OBVIOUS
  <2> QED BY <1>1, <2>1 DEF RestOf
<1>2. CASE Area(part) # 0
  <2>1. part \in Rectangle /\ Search(part, 0, MaxRows(part.w)) \in Task
    BY <1>2, RestIs
  <2>2. Simple(part) \in Seq(Rectangle) /\ f[Search(part, 0, MaxRows(part.w))] \in Seq(Rectangle)
    BY <2>1, SimpleType
  <2> QED BY <1>2, <2>2 DEF RestOf
<1> QED BY <1>1, <1>2

\* Beside and below an area the search goes on in smaller rectangles.
LEMMA RestShallower ==
  ASSUME NEW t \in Task, NEW a, Within(a, t.r),
         NEW part \in {LeftOf(t.r, a), RightOf(t.r, a), BelowOf(t.r, a)}
  PROVE  part \in Extent /\ (Area(part) # 0 => Depth(Search(part, 0, MaxRows(part.w))) < Depth(t))
<1> DEFINE r == t.r
<1>1. r \in Rectangle /\ r.w \in Nat /\ r.h \in Nat
  BY TaskIs
<1>2. a.w \in Nat /\ a.h \in Nat
  BY RectangleIs DEF Within
<1> HIDE DEF r
<1>3. /\ LeftOf(r, a) \in Extent /\ RightOf(r, a) \in Extent /\ BelowOf(r, a) \in Extent
      /\ LeftOf(r, a).w + a.w <= r.w /\ LeftOf(r, a).h <= r.h
      /\ RightOf(r, a).w + a.w <= r.w /\ RightOf(r, a).h <= r.h
      /\ BelowOf(r, a).w = r.w /\ BelowOf(r, a).h + a.h <= r.h
      /\ a.w > 0 /\ a.h > 0
  BY <1>1, PartsAre DEF r
<1>4. part \in Extent
  BY <1>3 DEF r
<1>5. part.w \in Nat /\ part.h \in Nat
  BY <1>4, RectangleIs
<1>6. part.w + part.h < r.w + r.h
  <2>1. CASE part = LeftOf(r, a)
    BY <1>1, <1>2, <1>3, <1>5, <2>1
  <2>2. CASE part = RightOf(r, a)
    BY <1>1, <1>2, <1>3, <1>5, <2>2
  <2>3. CASE part = BelowOf(r, a)
    BY <1>1, <1>2, <1>3, <1>5, <2>3
  <2> QED BY <2>1, <2>2, <2>3 DEF r
<1>7. ASSUME Area(part) # 0 PROVE Depth(Search(part, 0, MaxRows(part.w))) < Depth(t)
  <2> DEFINE q == Search(part, 0, MaxRows(part.w))
  <2>1. q \in Task /\ q.r = part
    BY <1>4, <1>7, RestIs
  <2> HIDE DEF q
  <2>2. q.r.w + q.r.h < t.r.w + t.r.h
    BY <1>6, <2>1 DEF r
  <2>3. Depth(q) < Depth(t)
    BY <2>1, <2>2, SmallerTask
  <2> QED BY <2>3 DEF q
<1> QED BY <1>4, <1>7

\* And so does a turn of the search.
LEMMA SearchTyped ==
  ASSUME NEW f \in [Task -> Seq(Rectangle)], NEW t \in Task, NEW picture
  PROVE  SearchFrom(picture, f, t) \in Seq(Rectangle)
<1>1. CASE t.from >= t.r.h
  BY <1>1, SearchEnds, SimpleType, TaskIs
<1>2. CASE t.from < t.r.h /\ t.from >= t.rows
  <2> DEFINE u == Rows(t.r, t.r.y, t.rows)
             q == Search(Lower(t.r, t.rows), t.from - t.rows, t.rows)
  <2>1. u \in Rectangle /\ q \in Task /\ SearchFrom(picture, f, t) = Simple(u) \o f[q]
    BY <1>2, SearchBelow
  <2> HIDE DEF u, q
  <2>2. Simple(u) \in Seq(Rectangle) /\ f[q] \in Seq(Rectangle)
    BY <2>1, SimpleType
  <2> QED BY <2>1, <2>2, Join
<1>3. CASE t.from < t.r.h /\ ~(t.from >= t.rows) /\ Found(picture, t) = {}
  <2> DEFINE q == Search(t.r, t.from + Tile, t.rows)
  <2>1. q \in Task /\ SearchFrom(picture, f, t) = f[q]
    BY <1>3, SearchOn
  <2> HIDE DEF q
  <2> QED BY <2>1
<1>4. CASE t.from < t.r.h /\ ~(t.from >= t.rows) /\ Found(picture, t) # {}
  <2> DEFINE a == CHOOSE a \in Found(picture, t) : TRUE
  <2>1. /\ Within(a, t.r)
        /\ SearchFrom(picture, f, t) =
              AboveOf(t.r, a) \o RestOf(f, LeftOf(t.r, a)) \o <<a>>
                \o RestOf(f, RightOf(t.r, a)) \o RestOf(f, BelowOf(t.r, a))
    BY <1>4, SearchAround
  <2> HIDE DEF a
  <2>2. AboveOf(t.r, a) \in Seq(Rectangle)
    BY <2>1, TaskIs, AboveIs DEF Tiles
  <2>3. LeftOf(t.r, a) \in Extent /\ RightOf(t.r, a) \in Extent /\ BelowOf(t.r, a) \in Extent
    BY <2>1, TaskIs, PartsAre
  <2> DEFINE s2 == RestOf(f, LeftOf(t.r, a))
             s4 == RestOf(f, RightOf(t.r, a))
             s5 == RestOf(f, BelowOf(t.r, a))
             s1 == AboveOf(t.r, a)
  <2>4. s2 \in Seq(Rectangle) /\ s4 \in Seq(Rectangle) /\ s5 \in Seq(Rectangle)
    BY <2>3, RestTyped
  <2>5. <<a>> \in Seq(Rectangle)
    BY <2>1 DEF Within
  <2>6. s1 \in Seq(Rectangle)
    BY <2>2
  <2>7. SearchFrom(picture, f, t) = s1 \o s2 \o <<a>> \o s4 \o s5
    BY <2>1
  <2> HIDE DEF s1, s2, s4, s5
  <2>8. s1 \o s2 \o <<a>> \o s4 \o s5 \in Seq(Rectangle)
    BY <2>4, <2>5, <2>6, Join
  <2> QED BY <2>7, <2>8
<1> QED BY <1>1, <1>2, <1>3, <1>4, TaskIs

\* A turn of the search depends on less deep searches only.
LEMMA SearchDetermined ==
  ASSUME NEW f, NEW g, NEW t \in Task, NEW picture,
         \A q \in Task : Depth(q) < Depth(t) => f[q] = g[q]
  PROVE  SearchFrom(picture, f, t) = SearchFrom(picture, g, t)
<1>1. CASE t.from >= t.r.h
  BY <1>1, SearchEnds
<1>2. CASE t.from < t.r.h /\ t.from >= t.rows
  <2> DEFINE u == Rows(t.r, t.r.y, t.rows)
             q == Search(Lower(t.r, t.rows), t.from - t.rows, t.rows)
  <2>1. q \in Task /\ Depth(q) < Depth(t)
    BY <1>2, SearchBelow
  <2>2. \A p, h : SearchFrom(p, h, t) = Simple(u) \o h[q]
    BY <1>2, SearchBelow, Zenon
  <2> HIDE DEF u, q
  <2> QED BY <2>1, <2>2
<1>3. CASE t.from < t.r.h /\ ~(t.from >= t.rows) /\ Found(picture, t) = {}
  <2> DEFINE q == Search(t.r, t.from + Tile, t.rows)
  <2>1. q \in Task /\ Depth(q) < Depth(t)
        /\ SearchFrom(picture, f, t) = f[q] /\ SearchFrom(picture, g, t) = g[q]
    BY <1>3, SearchOn
  <2> HIDE DEF q
  <2> QED BY <2>1
<1>4. CASE t.from < t.r.h /\ ~(t.from >= t.rows) /\ Found(picture, t) # {}
  <2> DEFINE a == CHOOSE a \in Found(picture, t) : TRUE
  <2>1. Within(a, t.r)
    BY <1>4, SearchAround
  <2>2. /\ SearchFrom(picture, f, t) =
              AboveOf(t.r, a) \o RestOf(f, LeftOf(t.r, a)) \o <<a>>
                \o RestOf(f, RightOf(t.r, a)) \o RestOf(f, BelowOf(t.r, a))
        /\ SearchFrom(picture, g, t) =
              AboveOf(t.r, a) \o RestOf(g, LeftOf(t.r, a)) \o <<a>>
                \o RestOf(g, RightOf(t.r, a)) \o RestOf(g, BelowOf(t.r, a))
    BY <1>4, SearchAround
  <2> HIDE DEF a
  <2>3. ASSUME NEW part \in {LeftOf(t.r, a), RightOf(t.r, a), BelowOf(t.r, a)}
        PROVE  RestOf(f, part) = RestOf(g, part)
    <3>1. part \in Extent /\ (Area(part) # 0 => Depth(Search(part, 0, MaxRows(part.w))) < Depth(t))
      BY <2>1, RestShallower
    <3>2. CASE Area(part) = 0
      BY <3>2 DEF RestOf
    <3>3. CASE Area(part) # 0
      <4>1. Search(part, 0, MaxRows(part.w)) \in Task
        BY <3>1, <3>3, RestIs
      <4>2. f[Search(part, 0, MaxRows(part.w))] = g[Search(part, 0, MaxRows(part.w))]
        BY <3>1, <3>3, <4>1
      <4> QED BY <4>2 DEF RestOf
    <3> QED BY <3>2, <3>3
  <2> QED BY <2>2, <2>3
<1> QED BY <1>1, <1>2, <1>3, <1>4, TaskIs

Searched(picture) == CHOOSE tight : tight = [t \in Task |-> SearchFrom(picture, tight, t)]

\* Tight by the search that CHOOSE finds.
LEMMA TightIs ==
  ASSUME NEW picture, NEW lastRect, NEW r
  PROVE  Tight(picture, lastRect, r) =
            IF ~lastRect \/ Area(r) < MinSplit THEN Simple(r)
            ELSE Searched(picture)[Search(r, 0, MaxRows(r.w))]
BY DEF Tight, Searched

\* The recursive definition of the search holds of what it defines.
LEMMA SearchUnfolds ==
  ASSUME NEW picture
  PROVE  \A t \in Task : Searched(picture)[t] = SearchFrom(picture, Searched(picture), t)
<1> DEFINE X == Task
           Y == Seq(Rectangle)
           m == [t \in X |-> Depth(t)]
           D == [f \in [X -> Y] |-> [t \in X |-> SearchFrom(picture, f, t)]]
<1>1. m \in [X -> Nat] /\ Y # {}
  <2>1. \A t \in X : Depth(t) \in Nat
    BY DepthIs
  <2>2. <<>> \in Y
    OBVIOUS
  <2>3. m \in [X -> Nat]
    <3> HIDE DEF X
    <3> QED BY <2>1
  <2> QED BY <2>2, <2>3
<1>2. ASSUME NEW f \in [X -> Y], NEW t \in X PROVE SearchFrom(picture, f, t) \in Y
  BY SearchTyped
<1>3. D \in [[X -> Y] -> [X -> Y]]
  <2> HIDE DEF X, Y
  <2> QED BY <1>2, Zenon
<1>4. Determined(X, Y, m, D)
  <2>1. ASSUME NEW f \in [X -> Y], NEW g \in [X -> Y], NEW t \in X,
               \A z \in X : m[z] < m[t] => f[z] = g[z]
        PROVE  D[f][t] = D[g][t]
    <3>1. \A z \in X : Depth(z) < Depth(t) => f[z] = g[z]
      BY <2>1
    <3>2. SearchFrom(picture, f, t) = SearchFrom(picture, g, t)
      BY <3>1, SearchDetermined
    <3> HIDE DEF X, Y
    <3> QED BY <3>2
  <2> HIDE DEF X, Y, m, D
  <2> QED BY <2>1 DEF Determined
<1>5. PICK f \in [X -> Y] : Solves(X, D, f)
  <2> HIDE DEF X, Y, m, D
  <2> QED BY <1>1, <1>3, <1>4, Recursion, Zenon
<1>6. f = [t \in X |-> SearchFrom(picture, f, t)]
  <2> HIDE DEF X, Y
  <2> QED BY <1>5, Zenon DEF Solves
<1>7. Searched(picture) = [t \in X |-> SearchFrom(picture, Searched(picture), t)]
  <2> HIDE DEF X
  <2> QED BY <1>6, Zenon DEF Searched, X
<1> HIDE DEF X
<1>8. \A t \in X : Searched(picture)[t] = SearchFrom(picture, Searched(picture), t)
  BY <1>7, Zenon
<1> QED BY <1>8 DEF X


\* The pieces are small, or an area of one colour.
WellCut(s, r, picture) == Tiles(s, r) /\ \A p \in ToSet(s) : Small(p) \/ Solid(picture, p)

\* A rectangle cut without a search.
LEMMA SimpleCut ==
  ASSUME NEW r \in Rectangle, NEW picture
  PROVE  WellCut(Simple(r), r, picture)
BY SimpleTiles DEF WellCut

\* A search tiles what it was given with pieces that are small or of one colour.
LEMMA SearchCuts ==
  ASSUME NEW picture, NEW t \in Task
  PROVE  WellCut(Searched(picture)[t], t.r, picture)
<1> DEFINE f == Searched(picture)
           G == {q \in Task : WellCut(f[q], q.r, picture)}
           m == [q \in Task |-> Depth(q)]
<1>1. \A q \in Task : f[q] = SearchFrom(picture, f, q)
  BY SearchUnfolds
<1> HIDE DEF f
<1>2. ASSUME NEW q \in Task, \A z \in Task : Depth(z) < Depth(q) => WellCut(f[z], z.r, picture)
      PROVE  WellCut(SearchFrom(picture, f, q), q.r, picture)
  <2>1. CASE q.from >= q.r.h
    <3>1. SearchFrom(picture, f, q) = Simple(q.r) /\ q.r \in Rectangle
      BY <2>1, SearchEnds, TaskIs
    <3> QED BY <3>1, SimpleCut
  <2>2. CASE q.from < q.r.h /\ q.from >= q.rows
    <3> DEFINE u == Rows(q.r, q.r.y, q.rows)
               z == Search(Lower(q.r, q.rows), q.from - q.rows, q.rows)
    <3>1. u \in Rectangle /\ z \in Task /\ Depth(z) < Depth(q) /\ Splits(q.r, u, z.r)
      BY <2>2, SearchBelow
    <3>2. \A p, h : SearchFrom(p, h, q) = Simple(u) \o h[z]
      BY <2>2, SearchBelow, Zenon
    <3> HIDE DEF u, z
    <3> DEFINE s1 == Simple(u)
               s2 == f[z]
    <3>3. SearchFrom(picture, f, q) = s1 \o s2
      BY <3>2
    <3>4. WellCut(s1, u, picture) /\ WellCut(s2, z.r, picture)
      BY <1>2, <3>1, SimpleCut
    <3> HIDE DEF s1, s2
    <3>5. Tiles(s1, u) /\ Tiles(s2, z.r) /\ s1 \in Seq(Rectangle) /\ s2 \in Seq(Rectangle)
      BY <3>4 DEF WellCut, Tiles
    <3>6. Tiles(s1 \o s2, q.r)
      BY <3>1, <3>5, TilesJoin
    <3>7. ToSet(s1 \o s2) = ToSet(s1) \cup ToSet(s2)
      BY <3>5, JoinSet
    <3> QED BY <3>3, <3>4, <3>6, <3>7 DEF WellCut
  <2>3. CASE q.from < q.r.h /\ ~(q.from >= q.rows) /\ Found(picture, q) = {}
    <3> DEFINE z == Search(q.r, q.from + Tile, q.rows)
    <3>1. z \in Task /\ Depth(z) < Depth(q) /\ z.r = q.r /\ SearchFrom(picture, f, q) = f[z]
      BY <2>3, SearchOn
    <3> HIDE DEF z
    <3> QED BY <1>2, <3>1
  <2>4. CASE q.from < q.r.h /\ ~(q.from >= q.rows) /\ Found(picture, q) # {}
    <3> DEFINE a == CHOOSE a \in Found(picture, q) : TRUE
    <3>1. /\ Within(a, q.r) /\ Solid(picture, a)
          /\ SearchFrom(picture, f, q) =
                AboveOf(q.r, a) \o RestOf(f, LeftOf(q.r, a)) \o <<a>>
                  \o RestOf(f, RightOf(q.r, a)) \o RestOf(f, BelowOf(q.r, a))
      BY <2>4, SearchAround
    <3> HIDE DEF a
    <3>2. ASSUME NEW part \in {LeftOf(q.r, a), RightOf(q.r, a), BelowOf(q.r, a)}
          PROVE  WellCut(RestOf(f, part), part, picture)
      <4> DEFINE z == Search(part, 0, MaxRows(part.w))
      <4>1. part \in Extent /\ (Area(part) # 0 => Depth(z) < Depth(q))
        BY <3>1, RestShallower
      <4>2. CASE Area(part) = 0
        <5>1. part.w = 0 \/ part.h = 0
          BY <4>1, <4>2, NoCells
        <5>2. Tiles(<<>>, part) /\ ToSet(<<>>) = {}
          BY <4>1, <5>1, TilesOne
        <5>3. RestOf(f, part) = <<>>
          BY <4>2 DEF RestOf
        <5> QED BY <5>2, <5>3 DEF WellCut
      <4>3. CASE Area(part) # 0
        <5>1. part \in Rectangle /\ z \in Task /\ z.r = part /\ Depth(z) < Depth(q)
          BY <4>1, <4>3, RestIs
        <5>2. RestOf(f, part) = Simple(part) \/ RestOf(f, part) = f[z]
          BY <4>3 DEF RestOf
        <5> HIDE DEF z
        <5>3. WellCut(f[z], z.r, picture)
          BY <1>2, <5>1
        <5>4. WellCut(Simple(part), part, picture)
          BY <5>1, SimpleCut
        <5> QED BY <5>1, <5>2, <5>3, <5>4
      <4> QED BY <4>2, <4>3
    <3> DEFINE s1 == AboveOf(q.r, a)
               s2 == RestOf(f, LeftOf(q.r, a))
               s4 == RestOf(f, RightOf(q.r, a))
               s5 == RestOf(f, BelowOf(q.r, a))
    <3>3. /\ WellCut(s2, LeftOf(q.r, a), picture) /\ WellCut(s4, RightOf(q.r, a), picture)
          /\ WellCut(s5, BelowOf(q.r, a), picture)
      BY <3>2
    <3>4. Tiles(s1, Above(q.r, a)) /\ \A p \in ToSet(s1) : Small(p)
      BY <3>1, TaskIs, AboveIs
    <3>5. SearchFrom(picture, f, q) = s1 \o s2 \o <<a>> \o s4 \o s5
      BY <3>1
    <3>a. q.r \in Rectangle
      BY TaskIs
    <3> HIDE DEF s1, s2, s4, s5
    <3>6. Tiles(s2, LeftOf(q.r, a)) /\ Tiles(s4, RightOf(q.r, a)) /\ Tiles(s5, BelowOf(q.r, a))
      BY <3>3 DEF WellCut
    <3>7. Tiles(s1 \o s2 \o <<a>> \o s4 \o s5, q.r)
      BY <3>a, <3>1, <3>4, <3>6, CutAround
    <3>8. s1 \in Seq(Rectangle) /\ s2 \in Seq(Rectangle) /\ s4 \in Seq(Rectangle) /\ s5 \in Seq(Rectangle)
      BY <3>4, <3>6 DEF Tiles
    <3>9. <<a>> \in Seq(Rectangle) /\ ToSet(<<a>>) = {a}
      <4>1. a \in Rectangle
        BY <3>1 DEF Within
      <4> QED BY <4>1, JoinOne
    <3>10. ToSet(s1 \o s2 \o <<a>> \o s4 \o s5)
             = (((ToSet(s1) \cup ToSet(s2)) \cup {a}) \cup ToSet(s4)) \cup ToSet(s5)
      <4> DEFINE o == <<a>>
                 c1 == s1 \o s2
                 c2 == c1 \o o
                 c3 == c2 \o s4
      <4>1. o \in Seq(Rectangle) /\ ToSet(o) = {a}
        BY <3>9
      <4> HIDE DEF o, c3, c2
      <4>2. c1 \in Seq(Rectangle) /\ ToSet(c1) = ToSet(s1) \cup ToSet(s2)
        BY <3>8, Join, JoinSet
      <4> HIDE DEF c1
      <4>3. c1 \o o \in Seq(Rectangle) /\ ToSet(c1 \o o) = ToSet(c1) \cup ToSet(o)
        BY <4>1, <4>2, Join, JoinSet
      <4>4. c2 \in Seq(Rectangle) /\ ToSet(c2) = ToSet(c1) \cup ToSet(o)
        BY <4>3 DEF c2
      <4>5. c2 \o s4 \in Seq(Rectangle) /\ ToSet(c2 \o s4) = ToSet(c2) \cup ToSet(s4)
        <5>1. c2 \in Seq(Rectangle) /\ s4 \in Seq(Rectangle)
          BY <3>8, <4>4
        <5>2. ToSet(c2 \o s4) = ToSet(c2) \cup ToSet(s4)
          BY <5>1, JoinSet
        <5> QED BY <5>1, <5>2, Join
      <4>6. c3 \in Seq(Rectangle) /\ ToSet(c3) = ToSet(c2) \cup ToSet(s4)
        BY <4>5 DEF c3
      <4>7. ToSet(c3 \o s5) = ToSet(c3) \cup ToSet(s5)
        BY <3>8, <4>6, JoinSet
      <4> QED BY <4>1, <4>2, <4>4, <4>6, <4>7 DEF c1, c2, c3, o
    <3>11. \A p \in ToSet(s1 \o s2 \o <<a>> \o s4 \o s5) : Small(p) \/ Solid(picture, p)
      BY <3>1, <3>3, <3>4, <3>10 DEF WellCut
    <3> QED BY <3>5, <3>7, <3>11 DEF WellCut
  <2> QED BY <2>1, <2>2, <2>3, <2>4, TaskIs
<1>3. Task \subseteq G
  <2>1. m \in [Task -> Nat]
    BY DepthIs
  <2>2. ASSUME NEW q \in Task, \A z \in Task : m[z] < m[q] => z \in G PROVE q \in G
    <3>1. \A z \in Task : Depth(z) < Depth(q) => WellCut(f[z], z.r, picture)
      BY <2>2
    <3> QED BY <1>1, <1>2, <3>1
  <2> HIDE DEF m, G
  <2> QED BY <2>1, <2>2, Induction
<1> QED BY <1>3 DEF f

\* Tight cuts a rectangle into pieces that are small or of one colour, and
\* into as many small ones as are announced if it looks for none.
LEMMA TightTiles ==
  ASSUME NEW picture, NEW lastRect \in BOOLEAN, NEW r \in Rectangle
  PROVE  /\ Tiles(Tight(picture, lastRect, r), r)
         /\ \A p \in ToSet(Tight(picture, lastRect, r)) :
               Small(p) \/ (lastRect /\ Solid(picture, p))
         /\ (~lastRect \/ Area(r) < MinSplit =>
                Len(Tight(picture, lastRect, r)) = NumCodedRects("Tight", r))
<1>1. CASE ~lastRect \/ Area(r) < MinSplit
  <2>1. Tight(picture, lastRect, r) = Simple(r)
    BY <1>1, TightIs
  <2> QED BY <2>1, SimpleTiles
<1>2. CASE ~(~lastRect \/ Area(r) < MinSplit)
  <2> DEFINE t == Search(r, 0, MaxRows(r.w))
  <2>1. Tight(picture, lastRect, r) = Searched(picture)[t]
    BY <1>2, TightIs
  <2>2. t \in Task /\ t.r = r
    BY WholeTask
  <2> HIDE DEF t
  <2>3. WellCut(Searched(picture)[t], r, picture)
    BY <2>2, SearchCuts
  <2> QED BY <1>2, <2>1, <2>3 DEF WellCut
<1> QED BY <1>1, <1>2

-----------------------------------------------------------------------------
(* The pieces of a rectangle in any of the encodings. *)

\* What PiecesFit says of a piece.
PieceFits(encoding, lastRect, picture, p) ==
    /\ encoding = "CoRRE" => p.w <= CorreMax /\ p.h <= CorreMax
    /\ encoding = "Lines" => Area(p) <= Greater(LinesMax, 2 * p.w)
    /\ encoding = "Tight" =>
          \/ p.w <= MaxRectWidth /\ Area(p) <= MaxRectSize
          \/ lastRect /\ Solid(picture, p)

\* No encoding leaves out a pixel of a rectangle, encodes one twice or cuts
\* pieces that are too large; where it announces their number, it is right.
LEMMA PiecesTile ==
  ASSUME NEW e \in Encoding, NEW lastRect \in BOOLEAN, NEW picture, NEW r \in Rectangle
  PROVE  LET s == Pieces(e, lastRect, picture, r)
         IN /\ Tiles(s, r)
            /\ \A p \in ToSet(s) : PieceFits(e, lastRect, picture, p)
            /\ (Counted(e, lastRect, r) => Len(s) = NumCodedRects(e, r))
<1> DEFINE s == Pieces(e, lastRect, picture, r)
<1>1. CASE e = "Raw"
  <2>1. s = <<r>> /\ NumCodedRects(e, r) = 1
    BY <1>1 DEF Pieces, NumCodedRects
  <2> HIDE DEF s
  <2> QED BY <1>1, <2>1, TilesOne DEF PieceFits, s
<1>2. CASE e = "CoRRE"
  <2>1. s = CoRRE[r] /\ NumCodedRects(e, r) = Times(r.w, CorreMax) * Times(r.h, CorreMax)
    BY <1>2 DEF Pieces, NumCodedRects
  <2> HIDE DEF s
  <2> QED BY <1>2, <2>1, CoRRETiles DEF PieceFits, s
<1>3. CASE e = "Lines"
  <2>1. s = Lines[r] /\ NumCodedRects(e, r) = Times(r.h, MaxLines(r.w))
    BY <1>3 DEF Pieces, NumCodedRects
  <2> HIDE DEF s
  <2> QED BY <1>3, <2>1, LinesTile DEF PieceFits, LinesFit, s
<1>4. CASE e = "Tight"
  <2>1. s = Tight(picture, lastRect, r)
    BY <1>4 DEF Pieces
  <2> HIDE DEF s
  <2> QED BY <1>4, <2>1, TightTiles DEF PieceFits, Small, Counted, s
<1> QED BY <1>1, <1>2, <1>3, <1>4 DEF Encoding

-----------------------------------------------------------------------------
(* The pieces of an update and their number. *)

\* The number that is announced for a rectangle is one.
LEMMA CodedRectsAre ==
  ASSUME NEW e \in Encoding, NEW r \in Rectangle
  PROVE  NumCodedRects(e, r) \in Nat
<1> DEFINE s == Pieces(e, FALSE, {}, r)
<1>1. Counted(e, FALSE, r)
  BY DEF Counted
<1>2. Tiles(s, r) /\ Len(s) = NumCodedRects(e, r)
  BY <1>1, PiecesTile
<1> HIDE DEF s
<1>3. s \in Seq(Rectangle)
  BY <1>2 DEF Tiles
<1>4. Len(s) \in Nat
  BY <1>3
<1> QED BY <1>2, <1>4

\* The numbers that add up to nUpdateRegionRects.
Sums(e, rects) ==
    CHOOSE sum : sum = [i \in 0 .. Len(rects) |->
        IF i = 0 THEN 0 ELSE sum[i - 1] + NumCodedRects(e, rects[i])]

\* The sum over the rectangles, unfolded.
LEMMA SumsAre ==
  ASSUME NEW e \in Encoding, NEW rects \in Seq(Rectangle)
  PROVE  /\ Sums(e, rects)[0] = 0
         /\ \A i \in 1..Len(rects) : Sums(e, rects)[i] = Sums(e, rects)[i - 1] + NumCodedRects(e, rects[i])
<1> DEFINE n == Len(rects)
           X == 0..n
           c == [i \in 1..n |-> NumCodedRects(e, rects[i])]
           step(f, i) == IF i = 0 THEN 0 ELSE f[i - 1] + NumCodedRects(e, rects[i])
           m == [i \in X |-> i]
           D == [f \in [X -> Nat] |-> [i \in X |-> step(f, i)]]
           g == Sums(e, rects)
<1>1. n \in Nat /\ \A i \in 1..n : rects[i] \in Rectangle
  OBVIOUS
<1>2. \A i \in 1..n : NumCodedRects(e, rects[i]) \in Nat
  BY <1>1, CodedRectsAre
<1> HIDE DEF n
<1>3. \A i \in X : i # 0 => i - 1 \in X /\ i \in 1..n /\ i - 1 < i
  BY <1>1
<1>4. m \in [X -> Nat]
  BY <1>1
<1>5. ASSUME NEW f \in [X -> Nat], NEW i \in X PROVE step(f, i) \in Nat
  <2>1. CASE i = 0
    BY <2>1
  <2>2. CASE i # 0
    <3>1. f[i - 1] \in Nat /\ NumCodedRects(e, rects[i]) \in Nat
      BY <1>2, <1>3, <2>2
    <3> QED BY <2>2, <3>1
  <2> QED BY <2>1, <2>2
<1>6. D \in [[X -> Nat] -> [X -> Nat]]
  <2> HIDE DEF X, step
  <2> QED BY <1>5, Zenon
<1>7. Determined(X, Nat, m, D)
  <2>1. ASSUME NEW f \in [X -> Nat], NEW h \in [X -> Nat], NEW j \in X,
               \A z \in X : m[z] < m[j] => f[z] = h[z]
        PROVE  D[f][j] = D[h][j]
    <3>1. CASE j = 0
      BY <3>1
    <3>2. CASE j # 0
      <4>1. j - 1 \in X /\ j - 1 < j
        BY <1>3, <3>2
      <4>2. f[j - 1] = h[j - 1]
        BY <2>1, <4>1
      <4> QED BY <4>2
    <3> QED BY <3>1, <3>2
  <2> HIDE DEF X, m, D
  <2> QED BY <2>1 DEF Determined
<1>8. PICK f \in [X -> Nat] : Solves(X, D, f)
  <2>1. Nat # {}
    OBVIOUS
  <2> HIDE DEF X, m, D
  <2> QED BY <1>4, <1>6, <1>7, <2>1, Recursion, Zenon
<1>9. f = [i \in X |-> step(f, i)]
  <2> HIDE DEF X, step
  <2> QED BY <1>8, Zenon DEF Solves
<1>10. g = [i \in X |-> step(g, i)]
  BY <1>9, Zenon DEF Sums, n
<1> HIDE DEF g, D, m
<1>11. \A i \in X : g[i] = step(g, i)
  <2> HIDE DEF X, step
  <2> QED BY <1>10, Zenon
<1>12. g[0] = 0
  <2>1. 0 \in X
    BY <1>1
  <2> QED BY <1>11, <2>1
<1>13. ASSUME NEW i \in 1..n PROVE g[i] = g[i - 1] + NumCodedRects(e, rects[i])
  <2>1. i \in X /\ i # 0
    BY <1>1
  <2> QED BY <1>11, <2>1
<1> QED BY <1>12, <1>13 DEF g, n

\* What an update holds of a region.
PiecesOfRegion(e, lastRect, picture, region) ==
    LET rects == Rects(region)
    IN FlattenSeq([i \in DOMAIN rects |-> Pieces(e, lastRect, picture, rects[i])])

\* The pieces of a region are apart, cover it and fit; if all are counted, the
\* sum is their number.
LEMMA RegionCut ==
  ASSUME NEW e \in Encoding, NEW lastRect \in BOOLEAN, NEW picture, NEW region, Orderly(region)
  PROVE  LET s == PiecesOfRegion(e, lastRect, picture, region)
             rects == Rects(region)
         IN /\ s \in Seq(Rectangle) /\ Apart(s) /\ CoverOf(s) = Pixels(region)
            /\ \A p \in ToSet(s) : PieceFits(e, lastRect, picture, p)
            /\ ((\A r \in ToSet(rects) : Counted(e, lastRect, r)) =>
                    Len(s) = Sums(e, rects)[Len(rects)])
<1> DEFINE rects == Rects(region)
           n == Len(rects)
           piece(r) == Pieces(e, lastRect, picture, r)
           ss == [i \in DOMAIN rects |-> piece(rects[i])]
           s == FlattenSeq(ss)
           g == Sums(e, rects)
<1>1. rects \in Seq(Rectangle) /\ Apart(rects) /\ Pixels(region) = CoverOf(rects)
  BY RectsAre DEF Pixels, CoverOf
<1>2. PiecesOfRegion(e, lastRect, picture, region) = s
  BY DEF PiecesOfRegion
<1> HIDE DEF rects
<1>3. /\ n \in Nat /\ DOMAIN rects = 1..n /\ \A i \in 1..n : rects[i] \in Rectangle
      /\ ToSet(rects) = {rects[i] : i \in 1..n}
  BY <1>1 DEF ToSet
<1>4. ASSUME NEW r \in Rectangle
      PROVE  /\ Tiles(piece(r), r)
             /\ \A p \in ToSet(piece(r)) : PieceFits(e, lastRect, picture, p)
             /\ (Counted(e, lastRect, r) => Len(piece(r)) = NumCodedRects(e, r))
  BY PiecesTile
<1> HIDE DEF n, piece
<1>5. /\ ss \in Seq(Seq(Rectangle)) /\ Len(ss) = n
      /\ \A i \in 1..n : ss[i] = piece(rects[i])
  <2>1. \A i \in 1..n : piece(rects[i]) \in Seq(Rectangle)
    BY <1>3, <1>4 DEF Tiles
  <2>2. ss = [i \in 1..n |-> piece(rects[i])]
    BY <1>3
  <2> HIDE DEF ss
  <2> QED BY <1>3, <2>1, <2>2
<1> HIDE DEF ss
<1>6. \A i \in 1..n : Apart(ss[i]) /\ CoverOf(ss[i]) = Cells(rects[i])
  BY <1>3, <1>4, <1>5 DEF Tiles
<1>7. s \in Seq(Rectangle) /\ ToSet(s) = UNION {ToSet(ss[i]) : i \in 1..n}
  BY <1>5, FlattenedSet
<1>8. Apart(s)
  <2>1. \A i, j \in 1..n : i < j => CoverOf(ss[i]) \cap CoverOf(ss[j]) = {}
    BY <1>1, <1>3, <1>6 DEF Apart
  <2> QED BY <1>5, <1>6, <2>1, FlattenedApart
<1> HIDE DEF s
<1>9. CoverOf(s) = Pixels(region)
  <2>1. \A q : q \in CoverOf(s) <=> \E i \in 1..n : q \in CoverOf(ss[i])
    BY <1>7 DEF CoverOf
  <2>2. \A q : q \in CoverOf(rects) <=> \E i \in 1..n : q \in Cells(rects[i])
    BY <1>3 DEF CoverOf
  <2>3. \A q : q \in CoverOf(s) <=> q \in CoverOf(rects)
    BY <1>6, <2>1, <2>2
  <2>4. CoverOf(s) = CoverOf(rects)
    BY <2>3, Zenon
  <2> QED BY <1>1, <2>4
<1>10. \A p \in ToSet(s) : PieceFits(e, lastRect, picture, p)
  BY <1>3, <1>4, <1>5, <1>7
<1>11. ASSUME \A r \in ToSet(rects) : Counted(e, lastRect, r)
       PROVE  Len(s) = g[n]
  <2>1. g[0] = 0 /\ \A i \in 1..n : g[i] = g[i - 1] + NumCodedRects(e, rects[i])
    BY <1>1, SumsAre DEF n
  <2>2. \A i \in 1..n : Len(ss[i]) = NumCodedRects(e, rects[i])
    BY <1>3, <1>4, <1>5, <1>11
  <2> HIDE DEF g
  <2>3. \A i \in 1..Len(ss) : g[i] = g[i - 1] + Len(ss[i])
    BY <1>5, <2>1, <2>2
  <2>4. Len(FlattenSeq(ss)) = g[Len(ss)]
    BY <1>5, <2>1, <2>3, FlattenedLength
  <2> QED BY <1>5, <2>4 DEF s
<1> QED BY <1>2, <1>7, <1>8, <1>9, <1>10, <1>11 DEF rects, n, g, s

-----------------------------------------------------------------------------
(* One update. *)

ModeOf == [encoding : Encoding, lastRect : BOOLEAN]

\* 0xFFFF is a number.
LEMMA UnknownIs == Unknown \in Nat
BY DEF Unknown

\* Sixteen bits lose nothing of a number that has no more.
LEMMA Remainder ==
  ASSUME NEW k \in Nat, NEW m \in Nat
  PROVE  k % (m + 1) \in Nat /\ (k < m => k % (m + 1) = k)
OBVIOUS

\* What is marked or asked for lies on the screen.
LEMMA ScreenIs ==
  /\ ScreenRect \in Rectangle
  /\ \A r \in Marked \cup Asked \cup {CursorRect} :
        Orderly(CreateRect(r)) /\ Pixels(CreateRect(r)) \subseteq Cells(ScreenRect)
  /\ Orderly(CreateRect(ScreenRect)) /\ Pixels(CreateRect(ScreenRect)) = Cells(ScreenRect)
<1>1. ScreenRect \in Rectangle
  BY UpdatesAssumption DEF ScreenRect, Rectangle
<1>2. \A r \in Marked \cup Asked \cup {CursorRect} : r \in Rectangle /\ Cells(r) \subseteq Cells(ScreenRect)
  BY UpdatesAssumption
<1> QED BY <1>1, <1>2, CreateRectIs

\* The pseudo-rectangles have a number.
LEMMA ExtrasAreFew ==
  ASSUME NEW s, s \subseteq Extras
  PROVE  Cardinality(s) \in Nat
<1>1. IsFiniteSet({})
  BY FS_EmptySet
<1>2. IsFiniteSet({} \cup {"CursorShape"})
  BY <1>1, FS_AddElement
<1>3. IsFiniteSet(({} \cup {"CursorShape"}) \cup {"CursorPos"})
  BY <1>2, FS_AddElement
<1>4. IsFiniteSet((({} \cup {"CursorShape"}) \cup {"CursorPos"}) \cup {"SupportedMessages"})
  BY <1>3, FS_AddElement
<1>5. IsFiniteSet(((({} \cup {"CursorShape"}) \cup {"CursorPos"}) \cup {"SupportedMessages"}) \cup {"SupportedEncodings"})
  BY <1>4, FS_AddElement
<1>6. IsFiniteSet((((({} \cup {"CursorShape"}) \cup {"CursorPos"}) \cup {"SupportedMessages"}) \cup {"SupportedEncodings"}) \cup {"ServerIdentity"})
  BY <1>5, FS_AddElement
<1>7. (((({} \cup {"CursorShape"}) \cup {"CursorPos"}) \cup {"SupportedMessages"}) \cup {"SupportedEncodings"}) \cup {"ServerIdentity"} = AllExtras
  BY DEF AllExtras
<1>8. IsFiniteSet(AllExtras) /\ s \in SUBSET AllExtras
  BY <1>6, <1>7, UpdatesAssumption
<1>9. IsFiniteSet(s)
  BY <1>8, FS_Subset
<1> QED BY <1>9, FS_CardinalityType

\* The number in the header is right or left open to a viewer that knows the
\* marker.
LEMMA NumRectsAre ==
  ASSUME mode \in ModeOf, NEW picture, NEW region, Orderly(region)
  PROVE  LET s == PiecesOfRegion(mode.encoding, mode.lastRect, picture, region)
         IN /\ NumRects(region) = Len(s) \/ (NumRects(region) = Unknown /\ mode.lastRect)
            /\ NumRects(region) \in Nat
<1> DEFINE e == mode.encoding
           known == mode.lastRect
           s == PiecesOfRegion(e, known, picture, region)
           rects == Rects(region)
           all == \A r \in ToSet(rects) : Counted(e, known, r)
<1>1. e \in Encoding /\ known \in BOOLEAN
  BY DEF ModeOf
<1>2. NumRects(region) = IF all THEN Sums(e, rects)[Len(rects)] ELSE Unknown
  BY DEF NumRects, Sums
<1>3. ~all => known
  BY <1>1 DEF Counted
<1> HIDE DEF all, e, known
<1>4. s \in Seq(Rectangle)
  BY <1>1, RegionCut
<1>5. all => Len(s) = Sums(e, rects)[Len(rects)]
  BY <1>1, RegionCut DEF all
<1> HIDE DEF s
<1>6. Len(s) \in Nat /\ Unknown \in Nat
  BY <1>4, UnknownIs
<1>7. CASE all
  BY <1>2, <1>5, <1>6, <1>7 DEF s, e, known
<1>8. CASE ~all
  BY <1>2, <1>3, <1>6, <1>8 DEF known
<1> QED BY <1>7, <1>8

\* A bounding box holds what the region holds, and stays on the screen.
LEMMA ReducedIs ==
  ASSUME NEW region, Orderly(region), Pixels(region) \subseteq Cells(ScreenRect)
  PROVE  /\ Orderly(Reduced(region)) /\ Pixels(region) \subseteq Pixels(Reduced(region))
         /\ Pixels(Reduced(region)) \subseteq Cells(ScreenRect)
<1>1. Reduced(region) = region \/ Reduced(region) = BBox(region)
  BY DEF Reduced
<1>2. CASE Reduced(region) = region
  BY <1>2
<1>3. CASE Reduced(region) = BBox(region) /\ region = Empty
  <2>1. BBox(region) = region
    BY <1>3 DEF BBox
  <2> QED BY <1>3, <2>1
<1>4. CASE Reduced(region) = BBox(region) /\ region # Empty
  <2>1. PICK b : BoxAround(region, ScreenRect, b)
    BY <1>4, ScreenIs, BBoxIs
  <2>2. /\ b \in Rectangle /\ BBox(region) = CreateRect(b)
        /\ Pixels(region) \subseteq Cells(b) /\ Cells(b) \subseteq Cells(ScreenRect)
    BY <2>1 DEF BoxAround
  <2>3. Orderly(CreateRect(b)) /\ Pixels(CreateRect(b)) = Cells(b)
    BY <2>2, CreateRectIs
  <2> QED BY <1>4, <2>2, <2>3
<1> QED BY <1>1, <1>2, <1>3, <1>4

\* What holds of an update that is sent in a mode.
InStep(u, m) ==
    Len(u.pieces) + Cardinality(u.extras) < Unknown =>
       IF u.marker THEN u.announced = Unknown /\ m.lastRect
       ELSE u.announced = Len(u.pieces) + Cardinality(u.extras)

UpdateFits(u, m) ==
    /\ u.announced \in Nat
    /\ u.pieces \in Seq(Rectangle) /\ Apart(u.pieces) /\ CoverOf(u.pieces) \subseteq Cells(ScreenRect)
    /\ \A p \in ToSet(u.pieces) : PieceFits(m.encoding, m.lastRect, u.picture, p)
    /\ InStep(u, m)

\* An update without pieces.
LEMMA NoPieces == <<>> \in Seq(Rectangle) /\ Apart(<<>>) /\ CoverOf(<<>>) = {} /\ ToSet(<<>>) = {}
<1>1. DOMAIN <<>> = {} /\ <<>> \in Seq(Rectangle)
  OBVIOUS
<1>2. ToSet(<<>>) = {}
  BY JoinOne, Zenon
<1> QED BY <1>1, <1>2 DEF Apart, CoverOf

\* Before the first update nothing was announced.
LEMMA NoUpdateFits ==
  ASSUME NEW m
  PROVE  UpdateFits(NoUpdate, m)
<1>1. /\ NoUpdate.announced = 0 /\ NoUpdate.pieces = <<>> /\ NoUpdate.extras = {}
      /\ NoUpdate.marker = FALSE
  BY DEF NoUpdate
<1>2. Len(<<>>) = 0 /\ Cardinality({}) = 0
  BY FS_EmptySet
<1> QED BY <1>1, <1>2, NoPieces DEF UpdateFits, InStep

\* What SendFramebufferUpdate sends of a region.
SentOf(region, picture) ==
    LET rects == Rects(Reduced(region))
        pieces(r) == Pieces(mode.encoding, mode.lastRect, picture, r)
    IN [announced |-> Announced(region),
        pieces |-> FlattenSeq([i \in DOMAIN rects |-> pieces(rects[i])]),
        extras |-> extras,
        marker |-> NumRects(Reduced(region)) = Unknown,
        picture |-> picture]

\* An update fits when it is sent, and covers the region that it was reduced to.
LEMMA SentFits ==
  ASSUME mode \in ModeOf, extras \subseteq Extras, NEW picture, NEW region, Orderly(region),
         Pixels(region) \subseteq Cells(ScreenRect)
  PROVE  /\ UpdateFits(SentOf(region, picture), mode)
         /\ CoverOf(SentOf(region, picture).pieces) = Pixels(Reduced(region))
<1> DEFINE u == SentOf(region, picture)
           z == Reduced(region)
           e == mode.encoding
           known == mode.lastRect
           s == PiecesOfRegion(e, known, picture, z)
           n == NumRects(z)
           c == Cardinality(extras)
<1>1. /\ u.announced = InHeader(n) /\ u.pieces = s /\ u.extras = extras
      /\ u.marker = (n = Unknown) /\ u.picture = picture
  BY DEF SentOf, PiecesOfRegion, Announced
<1>2. Orderly(z) /\ Pixels(z) \subseteq Cells(ScreenRect)
  BY ReducedIs
<1>3. e \in Encoding /\ known \in BOOLEAN
  BY DEF ModeOf
<1>4. c \in Nat
  BY ExtrasAreFew
<1> HIDE DEF u, z, c
<1>5. (n = Len(s) \/ (n = Unknown /\ known)) /\ n \in Nat
  BY <1>2, NumRectsAre
<1> HIDE DEF n, e, known
<1>6. /\ s \in Seq(Rectangle) /\ Apart(s) /\ CoverOf(s) = Pixels(z)
      /\ \A p \in ToSet(s) : PieceFits(e, known, picture, p)
  BY <1>2, <1>3, RegionCut
<1> HIDE DEF s
<1>7. Len(s) \in Nat
  BY <1>6
<1>8. InHeader(n) = IF n = Unknown THEN Unknown ELSE (n + c) % (Unknown + 1)
  BY DEF InHeader, c
<1>9. InHeader(n) \in Nat
  <2>1. n + c \in Nat
    BY <1>4, <1>5
  <2> QED BY <1>8, <2>1, UnknownIs, Remainder
<1>10. ASSUME Len(s) + c < Unknown, n # Unknown PROVE InHeader(n) = Len(s) + c
  <2>1. n = Len(s) /\ Len(s) + c \in Nat
    BY <1>4, <1>5, <1>7, <1>10
  <2>2. InHeader(n) = (Len(s) + c) % (Unknown + 1)
    BY <1>8, <1>10, <2>1
  <2> QED BY <1>10, <2>1, <2>2, UnknownIs, Remainder
<1>11. ASSUME Len(s) + c < Unknown, n = Unknown PROVE known
  <2>1. n # Len(s)
    BY <1>4, <1>7, <1>11, UnknownIs
  <2> QED BY <1>5, <2>1, Zenon
<1>12. InStep(u, mode)
  <2>1. CASE n = Unknown
    BY <1>1, <1>8, <1>11, <2>1 DEF InStep, c, known
  <2>2. CASE n # Unknown
    BY <1>1, <1>10, <2>2 DEF InStep, c
  <2> QED BY <2>1, <2>2
<1>13. \A p \in ToSet(u.pieces) : PieceFits(mode.encoding, mode.lastRect, u.picture, p)
  BY <1>1, <1>6 DEF e, known
<1> QED BY <1>1, <1>2, <1>6, <1>9, <1>12, <1>13 DEF UpdateFits, u, z

-----------------------------------------------------------------------------
(* The invariant: what UpdatesTypeOK says of the regions, and what holds of *)
(* an update at the moment when it is sent.                                *)

UpdatesInv == UpdatesTypeOK /\ UpdateFits(update, mode)

\* The parts of the invariant that a step changes or leaves alone.
RegionsFit(modified, requested) ==
    /\ Orderly(modified) /\ Pixels(modified) \subseteq Cells(ScreenRect)
    /\ Orderly(requested) /\ Pixels(requested) \subseteq Cells(ScreenRect)

\* The invariant by its parts.
LEMMA InvIs ==
  UpdatesInv <=> /\ RegionsFit(modifiedRegion, requestedRegion) /\ mode \in ModeOf
                 /\ extras \subseteq Extras /\ UpdateFits(update, mode)
BY DEF UpdatesInv, UpdatesTypeOK, RegionsFit, ModeOf, UpdateFits

\* The same after a step.
LEMMA InvAfter ==
  UpdatesInv' <=> /\ RegionsFit(modifiedRegion', requestedRegion') /\ mode' \in ModeOf
                  /\ extras' \subseteq Extras /\ UpdateFits(update', mode')
BY DEF UpdatesInv, UpdatesTypeOK, RegionsFit, ModeOf, UpdateFits

\* A region to which a rectangle of the screen is added.
LEMMA Added ==
  ASSUME NEW region, Orderly(region), Pixels(region) \subseteq Cells(ScreenRect),
         NEW r \in Marked \cup Asked \cup {CursorRect}
  PROVE  LET o == Or(region, CreateRect(r))
         IN /\ Orderly(o) /\ Pixels(o) \subseteq Cells(ScreenRect)
            /\ Pixels(o) = Pixels(region) \cup Pixels(CreateRect(r))
<1>1. Orderly(CreateRect(r)) /\ Pixels(CreateRect(r)) \subseteq Cells(ScreenRect)
  BY ScreenIs
<1> DEFINE c == CreateRect(r)
<1> HIDE DEF c
<1>2. Orderly(c)
  BY <1>1 DEF c
<1>3. Orderly(Or(region, c)) /\ Pixels(Or(region, c)) = Pixels(region) \cup Pixels(c)
  BY <1>2, OrIsUnion
<1> QED BY <1>1, <1>3 DEF c

\* A client that has just been accepted.
LEMMA InvInit == Init => UpdatesInv
<1> SUFFICES ASSUME Init PROVE UpdatesInv
  OBVIOUS
<1>1. RegionsFit(modifiedRegion, requestedRegion)
  BY ScreenIs, EmptyIs DEF Init, RegionsFit
<1>2. mode \in ModeOf /\ extras \subseteq Extras
  BY DEF Init, ModeOf, Encoding
<1>3. UpdateFits(update, mode)
  BY NoUpdateFits DEF Init
<1> QED BY <1>1, <1>2, <1>3, InvIs

\* rfbMarkRegionAsModified.
LEMMA MarkKeeps ==
  ASSUME UpdatesInv, NEW r \in Marked, Mark(r)
  PROVE  UpdatesInv' /\ Promised!Change
<1>1. /\ modifiedRegion' = Or(modifiedRegion, CreateRect(r)) /\ update' = NoUpdate
      /\ requestedRegion' = requestedRegion /\ mode' = mode /\ extras' = extras
  BY DEF Mark
<1>2. RegionsFit(modifiedRegion, requestedRegion) /\ mode \in ModeOf /\ extras \subseteq Extras
  BY InvIs
<1>3. /\ Orderly(modifiedRegion') /\ Pixels(modifiedRegion') \subseteq Cells(ScreenRect)
      /\ Pixels(modifiedRegion) \subseteq Pixels(modifiedRegion')
  BY <1>1, <1>2, Added DEF RegionsFit
<1>4. UpdateFits(update', mode')
  BY <1>1, NoUpdateFits
<1>5. UpdatesInv'
  BY <1>1, <1>2, <1>3, <1>4, InvAfter DEF RegionsFit
<1>6. UNION {Cells(z) : z \in ToSet(update'.pieces)} = {}
  BY <1>1, NoPieces DEF NoUpdate
<1> QED BY <1>1, <1>3, <1>5, <1>6 DEF Promised!Change

\* A FramebufferUpdateRequest.
LEMMA RequestKeeps ==
  ASSUME UpdatesInv, NEW r \in Asked, NEW incremental \in BOOLEAN,
         FramebufferUpdateRequest(r, incremental)
  PROVE  UpdatesInv' /\ Promised!Request
<1>1. /\ requestedRegion' = Or(requestedRegion, CreateRect(r)) /\ update' = NoUpdate
      /\ modifiedRegion' = modifiedRegion \/ modifiedRegion' = Or(modifiedRegion, CreateRect(r))
      /\ mode' = mode /\ extras' = extras
  BY DEF FramebufferUpdateRequest
<1>2. RegionsFit(modifiedRegion, requestedRegion) /\ mode \in ModeOf /\ extras \subseteq Extras
  BY InvIs
<1>3. /\ Orderly(requestedRegion') /\ Pixels(requestedRegion') \subseteq Cells(ScreenRect)
      /\ Pixels(requestedRegion') = Pixels(requestedRegion) \cup Pixels(CreateRect(r))
  BY <1>1, <1>2, Added DEF RegionsFit
<1>4. /\ Orderly(modifiedRegion') /\ Pixels(modifiedRegion') \subseteq Cells(ScreenRect)
      /\ Pixels(modifiedRegion) \subseteq Pixels(modifiedRegion')
      /\ Pixels(modifiedRegion') \subseteq Pixels(modifiedRegion) \cup Pixels(CreateRect(r))
  <2>1. CASE modifiedRegion' = modifiedRegion
    BY <1>2, <2>1 DEF RegionsFit
  <2>2. CASE modifiedRegion' = Or(modifiedRegion, CreateRect(r))
    BY <1>2, <2>2, Added DEF RegionsFit
  <2> QED BY <1>1, <2>1, <2>2
<1>5. UpdateFits(update', mode')
  BY <1>1, NoUpdateFits
<1>6. UpdatesInv'
  BY <1>1, <1>2, <1>3, <1>4, <1>5, InvAfter DEF RegionsFit
<1>7. UNION {Cells(z) : z \in ToSet(update'.pieces)} = {}
  BY <1>1, NoPieces DEF NoUpdate
<1>8. Pixels(modifiedRegion') \subseteq Pixels(modifiedRegion) \cup Pixels(requestedRegion')
  BY <1>3, <1>4
<1> QED BY <1>3, <1>4, <1>6, <1>7, <1>8 DEF Promised!Request

\* A SetEncodings: what it asks for anew has to be sent.
LEMMA EncodingsKeep ==
  ASSUME UpdatesInv, NEW m \in Modes, NEW wanted \in SUBSET Extras, SetEncodings(m, wanted)
  PROVE  UpdatesInv' /\ Promised!Change
<1>1. /\ modifiedRegion' = modifiedRegion \/ modifiedRegion' = Or(modifiedRegion, CreateRect(CursorRect))
      /\ update' = NoUpdate /\ requestedRegion' = requestedRegion /\ mode' = m
      /\ extras' \subseteq wanted
  BY DEF SetEncodings
<1>2. RegionsFit(modifiedRegion, requestedRegion)
  BY InvIs
<1>3. /\ Orderly(modifiedRegion') /\ Pixels(modifiedRegion') \subseteq Cells(ScreenRect)
      /\ Pixels(modifiedRegion) \subseteq Pixels(modifiedRegion')
  <2>1. CASE modifiedRegion' = modifiedRegion
    BY <1>2, <2>1 DEF RegionsFit
  <2>2. CASE modifiedRegion' = Or(modifiedRegion, CreateRect(CursorRect))
    BY <1>2, <2>2, Added DEF RegionsFit
  <2> QED BY <1>1, <2>1, <2>2
<1>4. UpdateFits(update', mode')
  BY <1>1, NoUpdateFits
<1>5. mode' \in ModeOf
  BY <1>1, UpdatesAssumption DEF ModeOf
<1>6. UpdatesInv'
  BY <1>1, <1>2, <1>3, <1>4, <1>5, InvAfter DEF RegionsFit
<1>7. UNION {Cells(z) : z \in ToSet(update'.pieces)} = {}
  BY <1>1, NoPieces DEF NoUpdate
<1> QED BY <1>1, <1>3, <1>6, <1>7 DEF Promised!Change

\* rfbSendFramebufferUpdate: the update is one that Delivery allows.
LEMMA SendKeeps ==
  ASSUME UpdatesInv, NEW picture, SendFramebufferUpdate(picture)
  PROVE  UpdatesInv' /\ Promised!Update
<1> DEFINE a == modifiedRegion
           b == requestedRegion
           region == And(a, b)
           z == Reduced(region)
<1>1. /\ modifiedRegion' = Subtract(a, region) /\ requestedRegion' = Empty
      /\ extras' = {} /\ mode' = mode /\ update' = SentOf(region, picture)
  BY DEF SendFramebufferUpdate, LeftAfter, SentOf
<1>2. RegionsFit(a, b) /\ mode \in ModeOf /\ extras \subseteq Extras
  BY InvIs
<1>3. Orderly(a) /\ Orderly(b) /\ Pixels(a) \subseteq Cells(ScreenRect)
  BY <1>2 DEF RegionsFit
<1> HIDE DEF a, b
<1>4. Orderly(region) /\ Pixels(region) = Pixels(a) \cap Pixels(b)
  BY <1>3, AndIsIntersection
<1> HIDE DEF region
<1>5. Pixels(region) \subseteq Cells(ScreenRect)
  BY <1>3, <1>4
<1>6. Orderly(Subtract(a, region)) /\ Pixels(Subtract(a, region)) = Pixels(a) \ Pixels(region)
  BY <1>3, <1>4, SubtractIsDifference
<1>7. Pixels(region) \subseteq Pixels(z) /\ Pixels(z) \subseteq Cells(ScreenRect)
  BY <1>4, <1>5, ReducedIs
<1>8. /\ UpdateFits(SentOf(region, picture), mode)
      /\ CoverOf(SentOf(region, picture).pieces) = Pixels(z)
  BY <1>2, <1>4, <1>5, SentFits
<1> HIDE DEF z
<1>9. RegionsFit(modifiedRegion', requestedRegion')
  BY <1>1, <1>3, <1>6, EmptyIs DEF RegionsFit
<1>10. UpdatesInv'
  <2>1. UpdateFits(update', mode') /\ mode' \in ModeOf /\ extras' \subseteq Extras
    BY <1>1, <1>2, <1>8
  <2> QED BY <1>9, <2>1, InvAfter
<1>11. UNION {Cells(p) : p \in ToSet(update'.pieces)} = Pixels(z)
  BY <1>1, <1>8 DEF CoverOf
<1>12. /\ Pixels(a) \cap Pixels(b) \subseteq Pixels(z) /\ Pixels(z) \subseteq Cells(ScreenRect)
       /\ Pixels(modifiedRegion') = Pixels(a) \ Pixels(b)
       /\ Pixels(requestedRegion') = {}
  <2>1. Pixels(a) \ (Pixels(a) \cap Pixels(b)) = Pixels(a) \ Pixels(b)
    OBVIOUS
  <2> QED BY <1>1, <1>4, <1>6, <1>7, <2>1, EmptyIs
<1> QED BY <1>10, <1>11, <1>12 DEF Promised!Update, a, b

\* Every step keeps the invariant and is a step of Delivery, or none.
LEMMA UpdateStep == UpdatesInv /\ [Next]_vars => UpdatesInv' /\ [Promised!Next]_(Promised!vars)
<1> SUFFICES ASSUME UpdatesInv, [Next]_vars
             PROVE  UpdatesInv' /\ [Promised!Next]_(Promised!vars)
  OBVIOUS
<1>1. ASSUME NEW r \in Marked, Mark(r) PROVE UpdatesInv' /\ Promised!Next
  BY <1>1, MarkKeeps DEF Promised!Next
<1>2. ASSUME NEW r \in Asked, NEW incremental \in BOOLEAN, FramebufferUpdateRequest(r, incremental)
      PROVE  UpdatesInv' /\ Promised!Next
  BY <1>2, RequestKeeps DEF Promised!Next
<1>3. ASSUME NEW m \in Modes, NEW wanted \in SUBSET Extras, SetEncodings(m, wanted)
      PROVE  UpdatesInv' /\ Promised!Next
  BY <1>3, EncodingsKeep DEF Promised!Next
<1>4. ASSUME NEW picture \in Seen, SendFramebufferUpdate(picture) PROVE UpdatesInv' /\ Promised!Next
  BY <1>4, SendKeeps DEF Promised!Next
<1>5. ASSUME UNCHANGED vars PROVE UpdatesInv' /\ UNCHANGED Promised!vars
  <2>1. /\ modifiedRegion' = modifiedRegion /\ requestedRegion' = requestedRegion
        /\ mode' = mode /\ extras' = extras /\ update' = update
    BY <1>5 DEF vars
  <2>2. UpdatesInv'
    BY <2>1, InvIs, InvAfter
  <2> QED BY <2>1, <2>2 DEF Promised!vars
<1> QED BY <1>1, <1>2, <1>3, <1>4, <1>5 DEF Next

\* The invariant holds throughout.
LEMMA UpdatesInvariance == Spec => []UpdatesInv
<1>1. UpdatesInv /\ [Next]_vars => UpdatesInv'
  BY UpdateStep
<1> QED BY InvInit, <1>1, PTL DEF Spec

\* The lists of spans of both regions stay in order, apart and on the screen,
\* whatever is marked, asked for and sent.
THEOREM UpdatesTyped == Spec => []UpdatesTypeOK
<1>1. UpdatesInv => UpdatesTypeOK
  BY DEF UpdatesInv
<1> QED BY <1>1, UpdatesInvariance, PTL

\* The header, written before anything is encoded, announces what then comes.
THEOREM StaysInStep == Spec => []ViewerInStep
<1>1. UpdatesInv => ViewerInStep
  BY DEF UpdatesInv, UpdateFits, InStep, ViewerInStep
<1> QED BY <1>1, UpdatesInvariance, PTL

\* However an update is cut, no pixel is encoded twice and none outside of
\* the screen, and no piece is empty.
THEOREM StayApart == Spec => []PiecesApart
<1>1. UpdatesInv => PiecesApart
  <2> SUFFICES ASSUME UpdatesInv PROVE PiecesApart
    OBVIOUS
  <2> DEFINE p == update.pieces
  <2>1. p \in Seq(Rectangle) /\ Apart(p) /\ CoverOf(p) \subseteq Cells(ScreenRect)
    BY DEF UpdatesInv, UpdateFits
  <2> HIDE DEF p
  <2>2. ASSUME NEW i \in DOMAIN p
        PROVE  /\ Cells(p[i]) # {} /\ Cells(p[i]) \subseteq Cells(ScreenRect)
               /\ \A j \in 1 .. i - 1 : Cells(p[i]) \cap Cells(p[j]) = {}
    <3>1. p[i] \in Rectangle /\ i \in 1..Len(p) /\ DOMAIN p = 1..Len(p) /\ Len(p) \in Nat
      BY <2>1
    <3>2. Cells(p[i]) # {}
      <4>1. /\ p[i] \in Extent /\ p[i].x \in Int /\ p[i].y \in Int
            /\ p[i].w \in Nat \ {0} /\ p[i].h \in Nat \ {0}
        BY <3>1, RectangleIs
      <4> DEFINE r == p[i]
      <4>2. r.x <= r.x /\ r.x < r.x + r.w /\ r.y <= r.y /\ r.y < r.y + r.h
        BY <4>1
      <4> HIDE DEF r
      <4>3. <<r.x, r.y>> \in Cells(r)
        BY <4>1, <4>2, ExtentCells DEF r
      <4> QED BY <4>3 DEF r
    <3>3. Cells(p[i]) \subseteq Cells(ScreenRect)
      BY <2>1 DEF CoverOf, ToSet
    <3>4. ASSUME NEW j \in 1 .. i - 1 PROVE Cells(p[i]) \cap Cells(p[j]) = {}
      <4>1. j \in DOMAIN p /\ j < i
        BY <3>1
      <4>2. Cells(p[j]) \cap Cells(p[i]) = {}
        BY <2>1, <4>1 DEF Apart
      <4> QED BY <4>2
    <3> QED BY <3>2, <3>3, <3>4
  <2> QED BY <2>2 DEF PiecesApart, p
<1> QED BY <1>1, UpdatesInvariance, PTL

\* No piece is larger than what its encoding is made for.
THEOREM StayFit == Spec => []PiecesFit
<1>1. UpdatesInv => PiecesFit
  <2> SUFFICES ASSUME UpdatesInv, NEW i \in DOMAIN update.pieces
               PROVE  PieceFits(mode.encoding, mode.lastRect, update.picture, update.pieces[i])
    BY DEF PiecesFit, PieceFits
  <2> QED BY DEF UpdatesInv, UpdateFits, ToSet
<1> QED BY <1>1, UpdatesInvariance, PTL

\* Walking the lists of spans and cutting up what they hold delivers the
\* pixels that changed and were asked for.
THEOREM Delivers == Spec => ImplementsDelivery
<1>1. Init => Promised!Init
  BY ScreenIs, EmptyIs, NoPieces DEF Init, NoUpdate, Promised!Init
<1>2. UpdatesInv /\ [Next]_vars => [Promised!Next]_(Promised!vars)
  BY UpdateStep
<1> QED BY <1>1, <1>2, UpdatesInvariance, PTL DEF Spec, ImplementsDelivery, Promised!Spec
====
