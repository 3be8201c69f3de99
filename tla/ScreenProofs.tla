---------------------------- MODULE ScreenProofs ----------------------------
(***************************************************************************)
(* Proofs about Screen, for every panel and any number of viewers: the     *)
(* types, whatever the rotation; and, as long as the screen is upright or  *)
(* turned by a quarter, that no change is forgotten and that nothing       *)
(* outside the frame buffer is sent.                                       *)
(***************************************************************************)
EXTENDS Screen, TLAPS

-----------------------------------------------------------------------------
(* Types. *)

\* A rotation that update_screen knows puts device pixels into vncbuf.
LEMMA CellsInside ==
    ASSUME TypeOK, NEW D \in SUBSET Panel, TurnedBy \in {0, 90, 180, 270}
    PROVE  {Cell(TurnedBy, p) : p \in D} \subseteq Whole
<1> SUFFICES ASSUME NEW p \in D PROVE Cell(TurnedBy, p) \in Whole
    OBVIOUS
<1>1. PICK i \in 0..PanelWidth - 1, j \in 0..PanelHeight - 1 : p = <<i, j>>
    BY DEF Panel
<1>2. /\ width = IF Upright(TurnedBy) THEN PanelWidth ELSE PanelHeight
      /\ height = IF Upright(TurnedBy) THEN PanelHeight ELSE PanelWidth
    BY DEF TypeOK, TurnedBy, Upright
<1>3. PanelWidth \in Nat \ {0} /\ PanelHeight \in Nat \ {0}
    BY ScreenAssumption
<1>4. p[1] = i /\ p[2] = j
    BY <1>1
<1>5. CASE TurnedBy = 0
    BY <1>1, <1>2, <1>3, <1>5 DEF Cell, Turned, Whole, RectOf, Upright
<1>6. CASE TurnedBy = 90
  <2>1. width - 1 - j \in 0..width - 1 /\ i \in 0..height - 1
    BY <1>2, <1>3, <1>6 DEF Upright
  <2>2. Cell(TurnedBy, p) = <<width - 1 - j, i>>
    BY <1>4, <1>6 DEF Cell, Turned
  <2> QED BY <2>1, <2>2 DEF Whole, RectOf
<1>7. CASE TurnedBy = 180
  <2>1. width - 1 - i \in 0..width - 1 /\ height - 1 - j \in 0..height - 1
    BY <1>2, <1>3, <1>7 DEF Upright
  <2>2. Cell(TurnedBy, p) = <<width - 1 - i, height - 1 - j>>
    BY <1>4, <1>7 DEF Cell, Turned
  <2> QED BY <2>1, <2>2 DEF Whole, RectOf
<1>8. CASE TurnedBy = 270
  <2>1. j \in 0..width - 1 /\ height - 1 - i \in 0..height - 1
    BY <1>2, <1>3, <1>8 DEF Upright
  <2>2. Cell(TurnedBy, p) = <<j, height - 1 - i>>
    BY <1>4, <1>8 DEF Cell, Turned
  <2> QED BY <2>1, <2>2 DEF Whole, RectOf
<1> QED BY <1>5, <1>6, <1>7, <1>8

LEMMA WholeIsNatural ==
    ASSUME TypeOK
    PROVE  /\ Whole \subseteq Nat \X Nat
           /\ RectOf(height, width) \subseteq Nat \X Nat
           /\ \A r, D : Marked(r, D) \subseteq Whole
           /\ \A region : Clipped(region) \subseteq Whole
<1>1. width \in Nat /\ height \in Nat
    BY ScreenAssumption DEF TypeOK
<1>2. /\ Whole \subseteq Nat \X Nat
      /\ RectOf(height, width) \subseteq Nat \X Nat
    BY <1>1 DEF Whole, RectOf
<1> QED BY <1>2 DEF Marked, Clipped

LEMMA InitTyped == Init => TypeOK
    BY ScreenAssumption DEF Init, TypeOK

LEMMA StepTyped == TypeOK /\ [Next]_vars => TypeOK'
<1> SUFFICES ASSUME TypeOK, [Next]_vars PROVE TypeOK'
    OBVIOUS
<1> USE DEF TypeOK
<1>1. CASE EventsDone
    BY <1>1 DEF EventsDone, layout, view
<1>2. CASE ClientsDone
    BY <1>2 DEF ClientsDone, layout, view
<1>3. CASE UpdateScreen
  <2>1. CASE TurnedBy \in {0, 90, 180, 270}
    <3>1. {Cell(TurnedBy, p) : p \in changed} \subseteq Nat \X Nat
        BY <2>1, CellsInside, WholeIsNatural
    <3>2. Marked(TurnedBy, changed) \subseteq Nat \X Nat
        BY WholeIsNatural
    <3> QED BY <1>3, <2>1, <3>1, <3>2 DEF UpdateScreen, layout
  <2>2. CASE TurnedBy \notin {0, 90, 180, 270}
    BY <1>3, <2>2 DEF UpdateScreen, layout
  <2> QED BY <2>1, <2>2
<1>4. CASE ScreenChanges
    BY <1>4 DEF ScreenChanges, loop, layout, view
<1>5. ASSUME NEW c \in Clients, Visits(c) PROVE TypeOK'
  <2>1. CASE NothingDue(c)
    BY <2>1 DEF NothingDue, Visit, layout
  <2>2. CASE StartDeferring(c)
    BY <2>2 DEF StartDeferring, Visit, layout
  <2>3. CASE SendNewFBSize(c)
    BY <2>3 DEF SendNewFBSize, Sending, Visit, layout
  <2>4. CASE SendUpdate(c)
    BY <2>4 DEF SendUpdate, Sending, Visit, layout
  <2> QED BY <1>5, <2>1, <2>2, <2>3, <2>4 DEF Visits
<1>6. ASSUME NEW c \in Clients, Viewer(c) PROVE TypeOK'
  <2>1. CASE Connect(c)
    BY <2>1, WholeIsNatural DEF Connect, loop, layout
  <2>2. CASE Leave(c)
    BY <2>2 DEF Leave, loop, layout
  <2>3. CASE Request(c)
    <3>1. PICK rows \in 1..height + 1, incremental \in BOOLEAN :
             UpdateRequest(c, RectOf(width, rows), incremental)
        BY <2>3 DEF Request
    <3>2. Clipped(RectOf(width, rows)) \subseteq Nat \X Nat
        BY WholeIsNatural
    <3> QED BY <3>1, <3>2 DEF UpdateRequest, loop, layout
  <2>4. CASE Rotate(c)
    <3>1. rotation' \in {0, 90, 180, 270}
        BY <2>4 DEF Rotate
    <3>2. Upright(rotation') = ~Upright(rotation)
        BY <2>4 DEF Rotate, Upright
    <3>3. /\ width' = IF Upright(rotation') THEN PanelWidth ELSE PanelHeight
          /\ height' = IF Upright(rotation') THEN PanelHeight ELSE PanelWidth
        BY <2>4, <3>2 DEF Rotate
    <3>4. RectOf(height, width) \subseteq Nat \X Nat
        BY WholeIsNatural
    <3>5. modified' \in [Clients -> SUBSET (Nat \X Nat)]
        BY <2>4, <3>4 DEF Rotate
    <3>6. stale' \in [Clients -> SUBSET (Nat \X Nat)]
        BY <2>4, <3>4 DEF Rotate
    <3> QED BY <2>4, <3>1, <3>3, <3>5, <3>6 DEF Rotate, loop, Upright
  <2> QED BY <1>6, <2>1, <2>2, <2>3, <2>4 DEF Viewer
<1>7. CASE UNCHANGED vars
    BY <1>7 DEF vars, loop, layout, view
<1> QED BY <1>1, <1>2, <1>3, <1>4, <1>5, <1>6, <1>7 DEF Next, Loop

\* Every variable stays in its range, and the size of vncscr is that of the
\* panel as rotation turns it, whatever keys the viewers press.
THEOREM ScreenTyped == Spec => []TypeOK
<1>1. Init => TypeOK
    BY InitTyped
<1>2. TypeOK /\ [Next]_vars => TypeOK'
    BY StepTyped
<1> QED BY <1>1, <1>2, PTL DEF Spec
-----------------------------------------------------------------------------
(* Nothing is forgotten, while no branch for half a turn is taken. *)

\* No -z, no F4, and -r says 0 or 90.
Steady == ~Zte /\ ~Rotatable /\ StartRotations \subseteq {0, 90}

RegionsInside ==
    \A c \in Clients :
        /\ modified[c] \subseteq Whole
        /\ requested[c] \subseteq Whole
        /\ ~sizePending[c]

\* The inductive invariant: NothingForgotten alone is not inductive, since
\* what the rectangle covers depends on the rotation.
IInv ==
    /\ TypeOK
    /\ rotation \in {0, 90}
    /\ RegionsInside
    /\ NothingForgotten

\* The rectangle covers whatever pixels have changed.
LEMMA MarkedCovers ==
    ASSUME TypeOK, rotation \in {0, 90}, ~Zte, NEW D \in SUBSET Panel
    PROVE  /\ TurnedBy = rotation
           /\ {Cell(TurnedBy, p) : p \in D} \subseteq Marked(TurnedBy, D)
<1>1. TurnedBy = rotation
    BY DEF TurnedBy
<1>2. ASSUME NEW p \in D PROVE Cell(TurnedBy, p) \in Marked(TurnedBy, D)
  <2>1. PICK i \in 0..PanelWidth - 1, j \in 0..PanelHeight - 1 : p = <<i, j>>
      BY <1>2 DEF Panel
  <2>2. p[1] = i /\ p[2] = j
      BY <2>1
  <2> DEFINE q == Cell(TurnedBy, p)
             t == Tracked(TurnedBy, p)
  <2>3. q \in Whole
      BY <1>1, <1>2, CellsInside
  <2>4. width \in Nat /\ height \in Nat /\ i \in Int /\ j \in Int
      BY ScreenAssumption DEF TypeOK
  <2>5. CASE rotation = 0
    <3>1. q = <<i, j>> /\ t = <<i, j>>
        BY <1>1, <2>1, <2>5 DEF Cell, Turned, Tracked
    <3>2. t[1] - 2 <= q[1] /\ q[1] < t[1] + 1 /\ t[2] <= q[2] /\ q[2] < t[2] + 1
        BY <2>4, <3>1
    <3> QED BY <1>2, <2>3, <3>2 DEF Marked
  <2>6. CASE rotation = 90
    <3>1. q = <<width - 1 - j, i>> /\ t = <<width - j, i>>
        BY <1>1, <2>2, <2>6 DEF Cell, Turned, Tracked
    <3>2. t[1] - 2 <= q[1] /\ q[1] < t[1] + 1 /\ t[2] <= q[2] /\ q[2] < t[2] + 1
        BY <2>4, <3>1
    <3> QED BY <1>2, <2>3, <3>2 DEF Marked
  <2> QED BY <2>5, <2>6
<1> QED BY <1>1, <1>2

LEMMA InitSteady == Steady /\ Init => IInv
<1> SUFFICES ASSUME Steady, Init PROVE IInv
    OBVIOUS
<1>1. TypeOK
    BY InitTyped
<1> QED BY <1>1 DEF IInv, Init, Steady, RegionsInside, NothingForgotten

LEMMA StepSteady == Steady /\ IInv /\ [Next]_vars => IInv'
<1> SUFFICES ASSUME Steady, IInv, [Next]_vars PROVE IInv'
    OBVIOUS
<1>1. TypeOK'
    BY StepTyped DEF IInv
<1> SUFFICES (rotation \in {0, 90} /\ RegionsInside /\ NothingForgotten)'
    BY <1>1 DEF IInv
<1>2. /\ TypeOK
      /\ rotation \in {0, 90}
      /\ ~Zte /\ ~Rotatable
    BY DEF IInv, Steady
<1> USE DEF IInv, RegionsInside, NothingForgotten
<1>3. CASE EventsDone
    BY <1>3 DEF EventsDone, layout, view, Whole, RectOf
<1>4. CASE ClientsDone
    BY <1>4 DEF ClientsDone, layout, view, Whole, RectOf
<1>5. CASE UpdateScreen
  <2>1. changed \in SUBSET Panel /\ TurnedBy \in {0, 90, 180, 270}
      BY <1>2 DEF TypeOK, TurnedBy
  <2>2. {Cell(TurnedBy, p) : p \in changed} \subseteq Marked(TurnedBy, changed)
      BY <1>2, <2>1, MarkedCovers
  <2>3. Marked(TurnedBy, changed) \subseteq Whole
      BY <1>2, WholeIsNatural
  <2>4. rotation' = rotation /\ Whole' = Whole
      BY <1>5 DEF UpdateScreen, layout, Whole, RectOf
  <2>5. ASSUME NEW c \in Clients
        PROVE  /\ stale'[c] = IF c \in viewers
                  THEN stale[c] \cup {Cell(TurnedBy, p) : p \in changed}
                  ELSE {}
               /\ modified'[c] = IF c \in viewers
                  THEN modified[c] \cup Marked(TurnedBy, changed)
                  ELSE {}
      BY <1>5, <2>1 DEF UpdateScreen
  <2>6. /\ viewers' = viewers /\ viewers \subseteq Clients
        /\ requested' = requested /\ sizePending' = sizePending
      BY <1>2, <1>5 DEF UpdateScreen, TypeOK
  <2> DEFINE cells == {Cell(TurnedBy, p) : p \in changed}
             marked == Marked(TurnedBy, changed)
  <2>7. ASSUME NEW c \in Clients
        PROVE  /\ stale'[c] = IF c \in viewers THEN stale[c] \cup cells ELSE {}
               /\ modified'[c] =
                     IF c \in viewers THEN modified[c] \cup marked ELSE {}
      BY <2>5
  <2>8. cells \subseteq marked /\ marked \subseteq Whole
      BY <2>2, <2>3
  <2> HIDE DEF cells, marked
  <2>9. RegionsInside'
    <3> SUFFICES ASSUME NEW c \in Clients
                 PROVE  /\ modified'[c] \subseteq Whole /\ requested'[c] \subseteq Whole
                        /\ ~sizePending'[c]
        BY <2>4
    <3>1. modified[c] \subseteq Whole /\ requested[c] \subseteq Whole /\ ~sizePending[c]
        OBVIOUS
    <3>2. ~sizePending'[c]
        BY <2>6, <3>1
    <3>3. modified'[c] = {} \/ modified'[c] = modified[c] \cup marked
        BY <2>7
    <3>4. modified'[c] \subseteq Whole
        BY <2>8, <3>1, <3>3
    <3> QED BY <2>6, <3>1, <3>2, <3>4
  <2>10. NothingForgotten'
    <3> SUFFICES ASSUME NEW c \in viewers' PROVE (stale[c] \subseteq modified[c])'
        OBVIOUS
    <3>1. c \in Clients /\ c \in viewers /\ stale[c] \subseteq modified[c]
        BY <2>6
    <3> QED BY <2>7, <2>8, <3>1
  <2> QED BY <1>2, <2>4, <2>9, <2>10
<1>6. CASE ScreenChanges
    BY <1>6 DEF ScreenChanges, loop, layout, view, Whole, RectOf
<1>7. ASSUME NEW c \in Clients, Visits(c)
      PROVE  (rotation \in {0, 90} /\ RegionsInside /\ NothingForgotten)'
  <2>1. rotation' = rotation /\ Whole' = Whole /\ viewers' = viewers
      BY <1>7 DEF Visits, NothingDue, StartDeferring, SendNewFBSize,
                  SendUpdate, Sending, Visit, layout, Whole, RectOf
  <2>2. CASE NothingDue(c) \/ StartDeferring(c)
      BY <2>1, <2>2 DEF NothingDue, StartDeferring
  <2>3. CASE SendNewFBSize(c)
      BY <2>3 DEF SendNewFBSize
  <2>4. CASE SendUpdate(c)
    <3> DEFINE updateRegion == modified[c] \cap requested[c]
    <3>1. ASSUME NEW d \in Clients
          PROVE  /\ modified'[d] = IF d = c THEN modified[d] \ updateRegion
                                   ELSE modified[d]
                 /\ stale'[d] = IF d = c THEN stale[d] \ updateRegion
                                ELSE stale[d]
                 /\ requested'[d] \subseteq requested[d]
      <4>1. modified' = [modified EXCEPT ![c] = modified[c] \ updateRegion]
          BY <2>4 DEF SendUpdate
      <4>2. stale' = [stale EXCEPT ![c] = stale[c] \ updateRegion]
          BY <2>4 DEF SendUpdate
      <4>3. requested' = [requested EXCEPT ![c] =
                             IF updateRegion = {} THEN requested[c] ELSE {}]
          BY <2>4 DEF SendUpdate
      <4> HIDE DEF updateRegion
      <4>4. /\ d \in DOMAIN modified /\ d \in DOMAIN stale /\ d \in DOMAIN requested
          BY <1>2 DEF TypeOK
      <4> QED BY <4>1, <4>2, <4>3, <4>4
    <3>2. sizePending' = sizePending /\ viewers \subseteq Clients
        BY <1>2, <2>4 DEF SendUpdate, TypeOK
    <3> HIDE DEF updateRegion
    <3>3. RegionsInside'
      <4> SUFFICES ASSUME NEW d \in Clients
                   PROVE  /\ modified'[d] \subseteq Whole /\ requested'[d] \subseteq Whole
                          /\ ~sizePending'[d]
          BY <2>1
      <4>1. modified[d] \subseteq Whole /\ requested[d] \subseteq Whole /\ ~sizePending[d]
          OBVIOUS
      <4>2. ~sizePending'[d]
          BY <3>2, <4>1
      <4>3. \/ modified'[d] = modified[d] \ updateRegion
            \/ modified'[d] = modified[d]
          BY <3>1
      <4>4. modified'[d] \subseteq Whole
          BY <4>1, <4>3
      <4>5. requested'[d] \subseteq Whole
          BY <3>1, <4>1
      <4> QED BY <4>2, <4>4, <4>5
    <3>4. NothingForgotten'
      <4> SUFFICES ASSUME NEW d \in viewers' PROVE (stale[d] \subseteq modified[d])'
          OBVIOUS
      <4>1. d \in Clients /\ stale[d] \subseteq modified[d]
          BY <2>1, <3>2
      <4> QED BY <3>1, <4>1
    <3> QED BY <1>2, <2>1, <3>3, <3>4
  <2> QED BY <1>7, <2>2, <2>3, <2>4 DEF Visits
<1>8. ASSUME NEW c \in Clients, Viewer(c)
      PROVE  (rotation \in {0, 90} /\ RegionsInside /\ NothingForgotten)'
  <2>1. CASE Connect(c)
    <3>1. ASSUME NEW d \in Clients
          PROVE  /\ modified'[d] = IF d = c THEN Whole ELSE modified[d]
                 /\ stale'[d] = IF d = c THEN Whole ELSE stale[d]
        BY <1>2, <2>1 DEF Connect, TypeOK
    <3>2. /\ viewers' = viewers \cup {c} /\ viewers \subseteq Clients
          /\ requested' = requested /\ sizePending' = sizePending
          /\ rotation' = rotation /\ Whole' = Whole
        BY <1>2, <2>1 DEF Connect, TypeOK, layout, Whole, RectOf
    <3> QED BY <1>2, <3>1, <3>2
  <2>2. CASE Leave(c)
    <3>1. ASSUME NEW d \in Clients
          PROVE  /\ modified'[d] = IF d = c THEN {} ELSE modified[d]
                 /\ stale'[d] = IF d = c THEN {} ELSE stale[d]
                 /\ requested'[d] = IF d = c THEN {} ELSE requested[d]
                 /\ ~sizePending'[d]
        BY <1>2, <2>2 DEF Leave, TypeOK
    <3>2. /\ viewers' \subseteq viewers /\ viewers \subseteq Clients
          /\ rotation' = rotation /\ Whole' = Whole
        BY <1>2, <2>2 DEF Leave, TypeOK, layout, Whole, RectOf
    <3> QED BY <1>2, <3>1, <3>2
  <2>3. CASE Request(c)
    <3>1. PICK rows \in 1..height + 1, incremental \in BOOLEAN :
             UpdateRequest(c, RectOf(width, rows), incremental)
        BY <2>3 DEF Request
    <3> DEFINE region == Clipped(RectOf(width, rows))
    <3>2. region \subseteq Whole
        BY DEF Clipped
    <3>3. ASSUME NEW d \in Clients
          PROVE  /\ requested'[d] \subseteq requested[d] \cup region
                 /\ modified[d] \subseteq modified'[d]
                 /\ modified'[d] \subseteq modified[d] \cup region
        BY <1>2, <3>1 DEF UpdateRequest, TypeOK
    <3>4. /\ viewers' = viewers /\ viewers \subseteq Clients
          /\ stale' = stale /\ sizePending' = sizePending
          /\ rotation' = rotation /\ Whole' = Whole
        BY <1>2, <3>1 DEF UpdateRequest, TypeOK, layout, Whole, RectOf
    <3> HIDE DEF region
    <3> QED BY <1>2, <3>2, <3>3, <3>4
  <2>4. CASE Rotate(c)
      BY <1>2, <2>4 DEF Rotate
  <2> QED BY <1>8, <2>1, <2>2, <2>3, <2>4 DEF Viewer
<1>9. CASE UNCHANGED vars
    BY <1>9 DEF vars, loop, layout, view, Whole, RectOf
<1> QED BY <1>3, <1>4, <1>5, <1>6, <1>7, <1>8, <1>9 DEF Next, Loop

\* As long as the screen is upright or turned by a quarter, whatever a viewer
\* shows otherwise than vncbuf is still to be sent to it: the rectangle that
\* update_screen marks covers what has changed, on every panel.
THEOREM NothingIsForgotten ==
    ASSUME Steady
    PROVE  Spec => []NothingForgotten
<1>1. Init => IInv
    BY InitSteady
<1>2. IInv /\ [Next]_vars => IInv'
    BY StepSteady
<1>3. IInv => NothingForgotten
    BY DEF IInv
<1> QED BY <1>1, <1>2, <1>3, PTL DEF Spec

\* Then nothing that lies outside of the frame buffer is sent either.
THEOREM SendsInside ==
    ASSUME Steady
    PROVE  Spec => []SendsWhatThereIs
<1>1. Init => IInv
    BY InitSteady
<1>2. IInv /\ [Next]_vars => IInv'
    BY StepSteady
<1>3. IInv => SendsWhatThereIs
    BY DEF IInv, RegionsInside, SendsWhatThereIs, TypeOK
<1> QED BY <1>1, <1>2, <1>3, PTL DEF Spec
=============================================================================
