-------------------------------- MODULE Region --------------------------------
(***************************************************************************)
(* The region library (rfbregion.c).  A region is a list of vertical       *)
(* spans, in order and apart, each with the list of the horizontal spans   *)
(* that it holds; a horizontal span holds none.  The code walks the list   *)
(* of a destination and that of a source side by side and edits the        *)
(* destination in place.  Such a walk is [done, d, s]: done is the part of *)
(* the destination that has been walked, d the part that begins at d_curr  *)
(* and s the part of the source that begins at s_curr.                     *)
(***************************************************************************)
EXTENDS Integers, SequencesExt

\* Lists of horizontal spans, and lists of either kind.
HLists == Seq([start : Int, end : Int, sub : {<<>>}])
Lists  == Seq([start : Int, end : Int, sub : HLists])

Span(start, end, sub) == [start |-> start, end |-> end, sub |-> sub]

Greater(a, b) == IF a > b THEN a ELSE b
Smaller(a, b) == IF a < b THEN a ELSE b

\* Mutant: spans are merged whatever they hold.
Touch(p, d) == p.end = d.start

Joins(p, d) == p.end = d.start /\ p.sub = d.sub

\* The last span of l merged with those that it continues, and the first one
\* with those that continue it.
MergePrevious[l \in Lists] ==
    LET n == Len(l) IN
    IF n > 1 /\ Joins(l[n - 1], l[n])
    THEN MergePrevious[SubSeq(l, 1, n - 2)
                         \o <<[l[n] EXCEPT !.start = l[n - 1].start]>>]
    ELSE l

MergeNext[l \in Lists] ==
    IF Len(l) > 1 /\ Joins(l[1], l[2])
    THEN MergeNext[<<[l[1] EXCEPT !.end = l[2].end]>> \o Tail(Tail(l))]
    ELSE l

\* The pieces of d before and after s, and the one that they share.
Before(d, s) ==
    IF s.start > d.start THEN <<Span(d.start, s.start, d.sub)>> ELSE <<>>

\* Mutant: a span that ends with s is split as well.
AfterOrEmpty(d, s) ==
    IF s.end <= d.end THEN <<Span(s.end, d.end, d.sub)>> ELSE <<>>

After(d, s) ==
    IF s.end < d.end THEN <<Span(s.end, d.end, d.sub)>> ELSE <<>>

Shared(d, s, sub) ==
    Span(Greater(d.start, s.start), Smaller(d.end, s.end), sub)

-----------------------------------------------------------------------------
(* What one turn of each loop makes of a walk; inner gives what the spans  *)
(* that overlap hold together.                                             *)

Walk == [done : Lists, d : Lists, s : Lists]
At(done, d, s) == [done |-> done, d |-> d, s |-> s]

\* Where the first spans overlap: the list up to that of d, which has taken up
\* what is before it, and the list up to the span that they share.
OrFirst(done, d, s) ==
    IF Before(s, d) = <<>> THEN Append(done, d)
    ELSE MergePrevious[done \o Before(s, d) \o <<d>>]

OrShared(inner, first, s) ==
    LET d == Last(first)
    IN MergePrevious[Front(first) \o Before(d, s)
                       \o <<Shared(d, s, inner[d.sub][s.sub])>>]

OrMeet(inner, w) ==
    LET s1    == Head(w.s)
        d1    == Head(w.d)
        left  == OrShared(inner, OrFirst(w.done, d1, s1), s1)
        right == MergeNext[<<Last(left)>> \o After(d1, s1) \o Tail(w.d)]
        end   == Head(right).end
    IN IF s1.end > end
       THEN At(Append(Front(left), Head(right)), Tail(right),
               <<[s1 EXCEPT !.start = end]>> \o Tail(w.s))
       ELSE At(Front(left), right, Tail(w.s))

OrStep(inner, w) ==
    LET s1 == Head(w.s)
        d1 == Head(w.d)
    IN IF w.d = <<>> THEN At(Append(w.done, s1), <<>>, Tail(w.s))
       ELSE IF d1.start >= s1.end
       THEN LET p == MergePrevious[Append(Append(w.done, s1), d1)]
            IN At(Front(p), <<Last(p)>> \o Tail(w.d), Tail(w.s))
       ELSE IF s1.start >= d1.end THEN At(Append(w.done, d1), Tail(w.d), w.s)
       ELSE OrMeet(inner, w)

AndStep(inner, w) ==
    LET s1   == Head(w.s)
        d1   == Head(w.d)
        both == Shared(d1, s1, inner[d1.sub][s1.sub])
        rest == After(d1, s1) \o Tail(w.d)
    IN IF d1.start >= s1.end THEN At(w.done, w.d, Tail(w.s))
       ELSE IF d1.end <= s1.start THEN At(w.done, Tail(w.d), w.s)
       ELSE IF d1.sub # <<>> /\ both.sub = <<>> THEN At(w.done, rest, w.s)
       ELSE At(MergePrevious[Append(w.done, both)], rest,
               IF s1.end <= both.end THEN Tail(w.s) ELSE w.s)

SubtractStep(inner, w) ==
    LET s1     == Head(w.s)
        d1     == Head(w.d)
        both   == Shared(d1, s1, inner[d1.sub][s1.sub])
        before == w.done \o Before(d1, s1)
        rest   == After(d1, s1) \o Tail(w.d)
        left   == MergePrevious[Append(before, both)]
        right  == MergeNext[<<Last(left)>> \o rest]
    IN IF d1.start >= s1.end THEN At(w.done, w.d, Tail(w.s))
       ELSE IF d1.end <= s1.start THEN At(Append(w.done, d1), Tail(w.d), w.s)
       ELSE IF both.sub = <<>> THEN At(before, rest, w.s)
       ELSE IF s1.end > Head(right).end
       THEN At(Append(Front(left), Head(right)), Tail(right), w.s)
       ELSE At(Front(left), right, Tail(w.s))

OrLists(inner) ==
    LET walk[w \in Walk] ==
            IF w.s = <<>> THEN w.done \o w.d ELSE walk[OrStep(inner, w)]
    IN [d \in Lists |-> [s \in Lists |-> walk[At(<<>>, d, s)]]]

AndLists(inner) ==
    LET walk[w \in Walk] ==
            IF w.s = <<>> \/ w.d = <<>> THEN w.done ELSE walk[AndStep(inner, w)]
    IN [d \in Lists |-> [s \in Lists |-> walk[At(<<>>, d, s)]]]

SubtractLists(inner) ==
    LET walk[w \in Walk] ==
            IF w.s = <<>> \/ w.d = <<>> THEN w.done \o w.d
            ELSE walk[SubtractStep(inner, w)]
    IN [d \in Lists |-> [s \in Lists |-> walk[At(<<>>, d, s)]]]

\* Horizontal spans hold nothing.
Nothing == [a \in HLists |-> [b \in HLists |-> <<>>]]

-----------------------------------------------------------------------------
(* The interface of the library. *)

Rectangle == [x : Int, y : Int, w : Nat \ {0}, h : Nat \ {0}]

Empty == <<>>

CreateRect(r) == <<Span(r.y, r.y + r.h, <<Span(r.x, r.x + r.w, <<>>)>>)>>

Or(dst, src)       == OrLists(OrLists(Nothing))[dst][src]
And(dst, src)      == AndLists(AndLists(Nothing))[dst][src]
Subtract(dst, src) == SubtractLists(SubtractLists(Nothing))[dst][src]

\* The rectangles in the order of the iterator.
Rects(region) ==
    FlattenSeq([i \in DOMAIN region |->
        LET v == region[i]
        IN [j \in DOMAIN v.sub |->
              [x |-> v.sub[j].start, w |-> v.sub[j].end - v.sub[j].start,
               y |-> v.start,        h |-> v.end - v.start]]])

CountRects(region) == Len(Rects(region))

BBox(region) ==
    IF region = Empty THEN Empty
    ELSE LET hspans == UNION {ToSet(v.sub) : v \in ToSet(region)}
             left   == Min({h.start : h \in hspans})
             right  == Max({h.end : h \in hspans})
             top    == Min({v.start : v \in ToSet(region)})
             bottom == Max({v.end : v \in ToSet(region)})
         IN CreateRect([x |-> left, y |-> top,
                        w |-> right - left, h |-> bottom - top])

-----------------------------------------------------------------------------
(* What a region stands for. *)

Cells(r) == (r.x .. r.x + r.w - 1) \X (r.y .. r.y + r.h - 1)

Pixels(region) == UNION {Cells(r) : r \in ToSet(Rects(region))}

\* The spans of a list are in order, apart and not empty.
InOrder(l) ==
    /\ \A i \in DOMAIN l : l[i].start < l[i].end
    /\ \A i, j \in DOMAIN l : i < j => l[i].end <= l[j].start

Orderly(region) ==
    /\ region \in Lists /\ InOrder(region)
    /\ \A i \in DOMAIN region : region[i].sub # <<>> /\ InOrder(region[i].sub)
=============================================================================
