------------------------------ MODULE Encodings ------------------------------
(***************************************************************************)
(* Into which rectangles an encoding cuts a rectangle of an update, and    *)
(* how many of them rfbSendFramebufferUpdate announces before the first is *)
(* encoded.  A rectangle is [x, y, w, h], a picture the set of its pixels  *)
(* that have one of two colours, and "Raw" stands for the encodings that   *)
(* cut nothing: Raw, RRE, Hextile, ZRLE and ZYWRLE.                        *)
(***************************************************************************)
EXTENDS Region

CONSTANTS
    CorreMax,      \* correMaxWidth and correMaxHeight
    LinesMax,      \* ULTRA_MAX_RECT_SIZE and ZLIB_MAX_RECT_SIZE
    MaxRectSize, MaxRectWidth,  \* of every row of tightConf
    MinSplit,      \* MIN_SPLIT_RECT_SIZE
    MinSolid,      \* MIN_SOLID_SUBRECT_SIZE
    Tile           \* MAX_SPLIT_TILE_SIZE

ASSUME EncodingsAssumption ==
    /\ \A n \in {CorreMax, LinesMax, MaxRectWidth, MinSolid, Tile} :
          n \in Nat \ {0}
    /\ MaxRectSize \in Nat /\ MaxRectSize >= Tile * MaxRectWidth
    /\ MinSplit \in Nat /\ MinSplit >= MinSolid

Encoding == {"Raw", "CoRRE", "Lines", "Tight"}

Area(r) == r.w * r.h

\* How often a length of n takes up m.
Times(n, m) == (n - 1) \div m + 1

Rows(r, from, n) == [r EXCEPT !.y = from, !.h = n]
Columns(r, from, n) == [r EXCEPT !.x = from, !.w = n]

\* r in pieces of at most w by h, row after row.
Grid(r, w, h) ==
    FlattenSeq([i \in 1..Times(r.h, h) |-> [j \in 1..Times(r.w, w) |->
        LET x == (j - 1) * w  y == (i - 1) * h
        IN [x |-> r.x + x, y |-> r.y + y,
            w |-> Smaller(w, r.w - x), h |-> Smaller(h, r.h - y)]]])

-----------------------------------------------------------------------------
(* CoRRE: at most CorreMax by CorreMax pixels. *)

CoRRE[r \in Rectangle] ==
    IF r.h > CorreMax
    THEN CoRRE[Rows(r, r.y, CorreMax)]
           \o CoRRE[Rows(r, r.y + CorreMax, r.h - CorreMax)]
    ELSE IF r.w > CorreMax
    THEN CoRRE[Columns(r, r.x, CorreMax)]
           \o CoRRE[Columns(r, r.x + CorreMax, r.w - CorreMax)]
    ELSE <<r>>

(* Ultra and Zlib: as many lines as LinesMax pixels are, two at least. *)

\* Mutant: the number of lines is rounded up.
LinesRoundedUp(w) == Times(Greater(w * 2, LinesMax), w)

MaxLines(w) == Greater(w * 2, LinesMax) \div w

Lines[r \in Rectangle] ==
    LET n == MaxLines(r.w)
    IN IF r.h <= n THEN <<r>>
       ELSE <<Rows(r, r.y, n)>> \o Lines[Rows(r, r.y + n, r.h - n)]

-----------------------------------------------------------------------------
(* Tight: at most MaxRectSize pixels and MaxRectWidth columns, except for  *)
(* areas of one colour, which are looked for in a rectangle of MinSplit    *)
(* pixels or more if the viewer knows LastRect.                            *)

MaxRows(w) == MaxRectSize \div Smaller(w, MaxRectWidth)

Simple(r) ==
    IF r.w > MaxRectWidth \/ Area(r) > MaxRectSize
    THEN Grid(r, Smaller(r.w, MaxRectWidth), MaxRows(r.w))
    ELSE <<r>>

Solid(picture, r) ==
    Cells(r) \subseteq picture \/ Cells(r) \cap picture = {}

\* The corners and the tiles of r at a distance of Tile.
Steps(from, n) == {from + k * Tile : k \in 0 .. (n - 1) \div Tile}
TileOf(r, x, y) ==
    [x |-> x, y |-> y, w |-> Smaller(Tile, r.x + r.w - x),
                       h |-> Smaller(Tile, r.y + r.h - y)]

\* FindBestSolidArea: the widest run of tiles of one colour in each row of
\* tiles of a, no wider than in the row above, as long as there is one; of
\* the areas that they form the first that is not exceeded, in a set of one.
BestSolidArea(picture, a) ==
    LET rows == 1 .. Times(a.h, Tile)
        down(k, w) == [a EXCEPT !.w = w, !.h = Smaller(k * Tile, a.h)]
        run[k \in {0} \cup rows] ==
            IF k = 0 THEN a.w
            ELSE LET width == run[k - 1]
                     ends  == {Smaller(i * Tile, width) : i \in 1 .. Times(width, Tile)}
                     solid == {w \in ends : Solid(picture, down(k, w))}
                 IN IF solid = {} THEN 0 ELSE Max(solid)
        size(k) == Area(down(k, run[k]))
    IN {down(k, run[k]) : k \in {k \in rows : /\ \A i \in 1 .. k - 1 : size(i) < size(k)
                                              /\ \A i \in rows : size(i) <= size(k)}}

\* ExtendSolidArea: up, down, to the left and to the right within r.
Extended(picture, r, a) ==
    LET rows(y, end) == Rows(a, y, end - y)
        top    == Min({y \in r.y..a.y : Solid(picture, rows(y, a.y + a.h))})
        bottom == Max({y \in a.y + a.h .. r.y + r.h :
                          Solid(picture, rows(top, y))})
        cols(x, end) == Columns(rows(top, bottom), x, end - x)
        left   == Min({x \in r.x..a.x : Solid(picture, cols(x, a.x + a.w))})
        right  == Max({x \in a.x + a.w .. r.x + r.w :
                          Solid(picture, cols(left, x))})
    IN cols(left, right)

\* The first tile of the row at y where an area of one colour begins that is
\* large enough; the area, in a set of one, or nothing.
SolidAreas(picture, r, y) ==
    LET below(x) == [x |-> x, w |-> r.x + r.w - x, y |-> y, h |-> r.y + r.h - y]
        large(x) == {a \in BestSolidArea(picture, below(x)) :
                        Area(a) = Area(r) \/ Area(a) >= MinSolid}
        good == {x \in Steps(r.x, r.w) :
                   Solid(picture, TileOf(r, x, y)) /\ large(x) # {}}
    IN {Extended(picture, r, a) :
           a \in UNION {large(x) : x \in {x \in good : \A z \in good : x <= z}}}

Lower(r, n) == Rows(r, r.y + n, r.h - n)

\* Mutant: what is to the left of a is forgotten.
WidthLeft(r, a) == [a EXCEPT !.x = a.x + a.w, !.w = r.w - a.w]

RightOf(r, a) == [a EXCEPT !.x = a.x + a.w, !.w = r.x + r.w - a.x - a.w]

\* Where the search for areas of one colour stands: the next row of tiles is
\* from lines below the top of r, and rows, nMaxRows, was computed for the whole.
Task == [r : Rectangle, from : Nat, rows : Nat \ {0}]

Search(r, from, rows) == [r |-> r, from |-> from, rows |-> rows]

SearchFrom(picture, tight, t) ==
    LET r     == t.r
        areas == SolidAreas(picture, r, r.y + t.from)
        rest(part) == IF Area(part) = 0 THEN <<>>
                      ELSE IF Area(part) < MinSplit THEN Simple(part)
                      ELSE tight[Search(part, 0, MaxRows(part.w))]
    IN IF t.from >= r.h THEN Simple(r)
       ELSE IF t.from >= t.rows
       THEN Simple(Rows(r, r.y, t.rows))
              \o tight[Search(Lower(r, t.rows), t.from - t.rows, t.rows)]
       ELSE IF areas = {} THEN tight[Search(r, t.from + Tile, t.rows)]
       ELSE LET a == CHOOSE a \in areas : TRUE
            IN (IF a.y = r.y THEN <<>> ELSE Simple(Rows(r, r.y, a.y - r.y)))
                 \o rest(Columns(a, r.x, a.x - r.x))
                 \o <<a>>
                 \o rest(RightOf(r, a))
                 \o rest(Rows(r, a.y + a.h, r.y + r.h - a.y - a.h))

\* SendRectEncodingTight.
Tight(picture, lastRect, r) ==
    LET tight[t \in Task] == SearchFrom(picture, tight, t)
    IN IF ~lastRect \/ Area(r) < MinSplit THEN Simple(r)
       ELSE tight[Search(r, 0, MaxRows(r.w))]

-----------------------------------------------------------------------------
(* What rfbSendFramebufferUpdate sends and announces for a rectangle.  It  *)
(* does not know how many pieces a rectangle has in which Tight looks for  *)
(* areas of one colour: rfbNumCodedRectsTight returns 0 for it.            *)

Pieces(encoding, lastRect, picture, r) ==
    CASE encoding = "Raw"   -> <<r>>
      [] encoding = "CoRRE" -> CoRRE[r]
      [] encoding = "Lines" -> Lines[r]
      [] encoding = "Tight" -> Tight(picture, lastRect, r)

Counted(encoding, lastRect, r) ==
    encoding = "Tight" => ~lastRect \/ Area(r) < MinSplit

NumCodedRects(encoding, r) ==
    CASE encoding = "Raw"   -> 1
      [] encoding = "CoRRE" -> Times(r.w, CorreMax) * Times(r.h, CorreMax)
      [] encoding = "Lines" -> Times(r.h, MaxLines(r.w))
      [] encoding = "Tight" ->
           IF r.w > MaxRectWidth \/ Area(r) > MaxRectSize
           THEN Times(r.w, MaxRectWidth) * Times(r.h, MaxRows(r.w))
           ELSE 1
=============================================================================
