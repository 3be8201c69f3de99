------------------------------- MODULE Updates -------------------------------
(***************************************************************************)
(* The screen on its way to one viewer: what rfbMarkRectAsModified and the *)
(* requests of the viewer leave in its regions, and the update that        *)
(* rfbSendFramebufferUpdate makes of them, in the encoding that the viewer *)
(* chose.  Each handler runs to its end under updateMutex.                 *)
(*                                                                         *)
(* No copies are scheduled in this program, so copyRegion stays empty;     *)
(* progressiveSliceHeight is 0 and the screen is not scaled.               *)
(***************************************************************************)
EXTENDS Encodings

CONSTANTS
    Width, Height,      \* of the screen
    MaxRectsPerUpdate,  \* vncscr->maxRectsPerUpdate
    Modes,              \* the choices of SetEncodings, [encoding, lastRect]
    Extras,             \* the pseudo rectangles that a viewer may ask for
    CursorRect,         \* the screen under the cursor
    Pictures,           \* what the screen may show, see Encodings
    Marked,             \* the rectangles that update_screen marks
    Asked               \* the rectangles that the viewer asks for

AllExtras == {"CursorShape", "CursorPos", "SupportedMessages",
              "SupportedEncodings", "ServerIdentity"}

ScreenRect == [x |-> 0, y |-> 0, w |-> Width, h |-> Height]

ASSUME UpdatesAssumption ==
    /\ Width \in Nat \ {0} /\ Height \in Nat \ {0}
    /\ MaxRectsPerUpdate \in Nat \ {0}
    /\ Modes \subseteq [encoding : Encoding, lastRect : BOOLEAN]
    /\ Extras \subseteq AllExtras
    /\ \A r \in Marked \cup Asked \cup {CursorRect} :
          r \in Rectangle /\ Cells(r) \subseteq Cells(ScreenRect)

VARIABLES
    modifiedRegion, requestedRegion,  \* of the client
    mode,     \* preferredEncoding and enableLastRectEncoding
    extras,   \* the pseudo rectangles that wait to be sent
    update    \* the update that this step sends: announced, the number in its
              \* header, pieces, its rectangles, extras, its pseudo rectangles,
              \* whether the LastRect marker ends it, and the picture that it
              \* shows if the encoding looks at it

vars == <<modifiedRegion, requestedRegion, mode, extras, update>>

Unknown  == 65535   \* 0xFFFF in the header
NoUpdate == [announced |-> 0, pieces |-> <<>>, extras |-> {}, marker |-> FALSE,
             picture |-> {}]

\* rfbNewClient, for a viewer that has not set its encodings yet.
Init ==
    /\ modifiedRegion = CreateRect(ScreenRect)
    /\ requestedRegion = Empty
    /\ mode = [encoding |-> "Raw", lastRect |-> FALSE]
    /\ extras = {}
    /\ update = NoUpdate

-----------------------------------------------------------------------------
\* rfbMarkRectAsModified.
Mark(r) ==
    /\ modifiedRegion' = Or(modifiedRegion, CreateRect(r))
    /\ update' = NoUpdate
    /\ UNCHANGED <<requestedRegion, mode, extras>>

FramebufferUpdateRequest(r, incremental) ==
    LET region == CreateRect(r) IN
    /\ requestedRegion' = Or(requestedRegion, region)
    /\ modifiedRegion' =
          IF incremental THEN modifiedRegion ELSE Or(modifiedRegion, region)
    /\ update' = NoUpdate
    /\ UNCHANGED <<mode, extras>>

\* All that was set before is reset.  A viewer that draws the cursor itself
\* needs what is under it; the position is sent only to such a viewer.
SetEncodings(m, wanted) ==
    /\ mode' = m
    /\ extras' = IF "CursorShape" \in wanted THEN wanted
                 ELSE wanted \ {"CursorPos"}
    /\ modifiedRegion' = IF "CursorShape" \in wanted
                         THEN Or(modifiedRegion, CreateRect(CursorRect))
                         ELSE modifiedRegion
    /\ update' = NoUpdate
    /\ UNCHANGED requestedRegion

\* FB_UPDATE_PENDING: a report of what is supported waits for an update.
Pending ==
    \/ extras \cap {"CursorShape", "CursorPos"} # {}
    \/ modifiedRegion # Empty

\* nUpdateRegionRects.
NumRects(region) ==
    LET rects == Rects(region)
        sum[i \in 0 .. Len(rects)] ==
            IF i = 0 THEN 0 ELSE sum[i - 1] + NumCodedRects(mode.encoding, rects[i])
    IN IF \A r \in ToSet(rects) : Counted(mode.encoding, mode.lastRect, r)
       THEN sum[Len(rects)] ELSE Unknown

\* The bounding box of a region with too many rectangles, unless the encoding
\* cuts them up itself.
Reduced(region) ==
    LET n == CountRects(region)
    IN IF n # Unknown /\ mode.encoding = "Raw" /\ n > MaxRectsPerUpdate
       THEN BBox(region) ELSE region

LeftAfter(region) == Subtract(modifiedRegion, region)

InHeader(n) == IF n = Unknown THEN Unknown ELSE (n + Cardinality(extras)) % (Unknown + 1)

\* Mutant: the rectangles are counted before the region is reduced.
CountedEarly(region) == InHeader(NumRects(region))

Announced(region) == InHeader(NumRects(Reduced(region)))

\* What the screen may show, if the encoding looks at it.
Seen == IF mode.lastRect THEN Pictures ELSE {{}}

\* rfbUpdateClient once deferUpdateTime has passed.
SendFramebufferUpdate(picture) ==
    LET region == And(modifiedRegion, requestedRegion)
        rects  == Rects(Reduced(region))
        pieces(r) == Pieces(mode.encoding, mode.lastRect, picture, r)
    IN /\ Pending /\ requestedRegion # Empty
       /\ region # Empty \/ extras # {}
       /\ modifiedRegion' = LeftAfter(region)
       /\ requestedRegion' = Empty
       /\ extras' = {}
       /\ update' = [announced |-> Announced(region),
                     pieces |-> FlattenSeq([i \in DOMAIN rects |-> pieces(rects[i])]),
                     extras |-> extras,
                     marker |-> NumRects(Reduced(region)) = Unknown,
                     picture |-> picture]
       /\ UNCHANGED mode

Next ==
    \/ \E r \in Marked : Mark(r)
    \/ \E r \in Asked, incremental \in BOOLEAN :
          FramebufferUpdateRequest(r, incremental)
    \/ \E m \in Modes, wanted \in SUBSET Extras : SetEncodings(m, wanted)
    \/ \E picture \in Seen : SendFramebufferUpdate(picture)

Spec == Init /\ [][Next]_vars

-----------------------------------------------------------------------------
(* Properties. *)

\* The lists of both regions stay in order and apart, and no span is empty.
UpdatesTypeOK ==
    /\ Orderly(modifiedRegion) /\ Pixels(modifiedRegion) \subseteq Cells(ScreenRect)
    /\ Orderly(requestedRegion) /\ Pixels(requestedRegion) \subseteq Cells(ScreenRect)
    /\ mode \in [encoding : Encoding, lastRect : BOOLEAN]
    /\ extras \subseteq Extras
    /\ update.announced \in Nat

\* The viewer stays in step with the stream: the header, which is written
\* before anything is encoded, announces as many rectangles as then come, or
\* leaves it open, to a viewer that knows the marker, and the marker comes.
\* The header has sixteen bits: of an update that has more rectangles than
\* they can tell nothing is claimed.
ViewerInStep ==
    Len(update.pieces) + Cardinality(update.extras) < Unknown =>
       IF update.marker THEN update.announced = Unknown /\ mode.lastRect
       ELSE update.announced = Len(update.pieces) + Cardinality(update.extras)

\* However an encoding cuts the update, no pixel is encoded twice, and
\* nothing outside of the screen or of no extent is encoded.
PiecesApart ==
    LET p == update.pieces IN
    \A i \in DOMAIN p :
       /\ Cells(p[i]) # {} /\ Cells(p[i]) \subseteq Cells(ScreenRect)
       /\ \A j \in 1 .. i - 1 : Cells(p[i]) \cap Cells(p[j]) = {}

\* No piece is larger than the buffers and the formats of its encoding are
\* made for; of an area of one colour only one pixel is encoded.
PiecesFit ==
    \A i \in DOMAIN update.pieces :
       LET r == update.pieces[i] IN
       /\ mode.encoding = "CoRRE" => r.w <= CorreMax /\ r.h <= CorreMax
       /\ mode.encoding = "Lines" => Area(r) <= Greater(LinesMax, 2 * r.w)
       /\ mode.encoding = "Tight" =>
             \/ r.w <= MaxRectWidth /\ Area(r) <= MaxRectSize
             \/ mode.lastRect /\ Solid(update.picture, r)

\* Walking the lists of spans and cutting up what they hold delivers the
\* pixels that changed and were asked for.
Promised == INSTANCE Delivery WITH
    Screen    <- Cells(ScreenRect),
    modified  <- Pixels(modifiedRegion),
    requested <- Pixels(requestedRegion),
    sent      <- UNION {Cells(r) : r \in ToSet(update.pieces)}

ImplementsDelivery == Promised!Spec
=============================================================================
