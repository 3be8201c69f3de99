------------------------------ MODULE MCUpdates ------------------------------
\* Updates on a screen of three by four pixels.
EXTENDS Updates

Rect(x, y, w, h) == [x |-> x, y |-> y, w |-> w, h |-> h]

MCModes ==
    {[encoding |-> e, lastRect |-> FALSE] : e \in Encoding}
      \cup {[encoding |-> "Tight", lastRect |-> TRUE]}

MCCursorRect == Rect(0, 0, 1, 2)

\* A tall and a wide area of one colour, a dot and a pattern.
MCPictures ==
    {{}, (0..2) \X (1..2), (1..2) \X (1..3), {<<0, 3>>},
     {p \in (0..2) \X (0..3) : (p[1] + p[2]) % 2 = 0}}

MCMarked == {Rect(0, 0, 2, 2), Rect(1, 1, 2, 2), Rect(0, 3, 1, 1), Rect(2, 1, 1, 3)}

MCAsked == {Rect(0, 0, 3, 4), Rect(1, 0, 2, 3), Rect(0, 1, 3, 1)}
=============================================================================
