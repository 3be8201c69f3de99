--------------------------- MODULE PointerProofs ----------------------------
(***************************************************************************)
(* Proofs about Pointer, for every panel and any number of viewers: the    *)
(* flags agree with the device and with the viewer that has the pointer,   *)
(* others cannot end its touch, and a touch lies on the pixel pointed at.  *)
(***************************************************************************)
EXTENDS Pointer, TLAPS

-----------------------------------------------------------------------------
(* Operators. *)

\* A button and its key are one thing.
LEMMA KeysOfButtons ==
    /\ \A b \in Buttons : KeyOf[b] \in Keys(Buttons)
    /\ \A b, d \in Buttons : KeyOf[b] = KeyOf[d] => b = d
    /\ \A b \in Buttons : KeyOf[b] = "BTN_TOUCH" <=> b = "left"
BY DEF Buttons, KeyOf, Keys

\* What is written for an event leaves the device with the keys of no button
\* but those that are down.
LEMMA WrittenKeys ==
    ASSUME NEW B \in SUBSET Buttons, clicked \subseteq Buttons,
           down \subseteq Keys(clicked), Touched <=> "left" \in clicked,
           NEW new, new = (down \cup Keys(Pressed(B))) \ Keys(Released(B))
    PROVE  /\ new \subseteq Keys(B)
           /\ "BTN_TOUCH" \in new <=> "left" \in B
<1>1. ASSUME NEW k \in new PROVE k \in Keys(B)
  <2>1. PICK b \in Buttons : k = KeyOf[b] /\ b \in clicked \cup B
    BY DEF Keys, Pressed
  <2>2. b \notin clicked \ B
    BY <2>1 DEF Keys, Released
  <2> QED BY <2>1, <2>2 DEF Keys
<1>2. ASSUME "left" \in B PROVE "BTN_TOUCH" \in new
  <2>1. "BTN_TOUCH" \notin Keys(Released(B))
    BY <1>2, KeysOfButtons DEF Keys, Released
  <2>2. "BTN_TOUCH" \in down \cup Keys(Pressed(B))
    <3>1. CASE "left" \in clicked
      BY <3>1 DEF Touched
    <3>2. CASE "left" \notin clicked
      <4>1. "left" \in Pressed(B) /\ "left" \in Buttons
        BY <1>2, <3>2 DEF Pressed, Moving, Buttons
      <4> QED BY <4>1, KeysOfButtons DEF Keys
    <3> QED BY <3>1, <3>2
  <2> QED BY <2>1, <2>2
<1>3. ASSUME "left" \notin B PROVE "BTN_TOUCH" \notin new
  BY <1>1, <1>3, KeysOfButtons DEF Keys
<1> QED BY <1>1, <1>2, <1>3

\* transformTouchCoordinates yields integers.
LEMMA TransformIsNumeric ==
    ASSUME PointerTypeOK, NEW p \in Places
    PROVE  TransformTouchCoordinates(p) \in Int \X Int
<1>1. width \in Nat \ {0} /\ height \in Nat \ {0}
  BY PointerAssumption DEF PointerTypeOK
<1>2. p[1] \in Int /\ p[2] \in Int
  BY DEF Places
<1>3. ASSUME NEW a \in Int, NEW n \in Nat \ {0} PROVE Scaled(a, n) \in Int
  BY DEF Scaled, Scale
<1>4. width - p[1] \in Int /\ height - p[2] \in Int
  BY <1>1, <1>2
<1> QED
  BY <1>1, <1>2, <1>3, <1>4 DEF TransformTouchCoordinates, PointerTypeOK

-----------------------------------------------------------------------------
(* The inductive invariant. *)

IInv ==
    /\ PointerTypeOK
    /\ KeysAgree
    /\ HolderDecides
    /\ uinput = "closed" => down = {}

LEMMA InitIInv == Init => IInv
<1> SUFFICES ASSUME Init PROVE IInv
  OBVIOUS
<1>1. Keys({}) = {} /\ 0 \in 0..MovesPerReport - 1 /\ {} \in Masks
  BY PointerAssumption DEF Keys, Masks
<1> QED
  BY <1>1 DEF Init, IInv, PointerTypeOK, KeysAgree, HolderDecides, Touched

\* An event that is accepted brings flags, device and viewer together.
LEMMA PointerEventIInv ==
    ASSUME IInv, NEW c \in Clients, NEW M \in Masks,
           NEW p \in Places, PointerEvent(c, M, p)
    PROVE  IInv'
<1> DEFINE B == M \cap Buttons
<1> USE DEF IInv
<1>1. NextMove(B) \in 0..MovesPerReport - 1
  BY PointerAssumption DEF NextMove, PointerTypeOK
<1>2. CASE uinput = "none"
  BY <1>2 DEF PointerEvent, PtrEvent, flags, device, layout, PointerTypeOK,
     KeysAgree, HolderDecides, Touched
<1>3. CASE uinput # "none"
  <2>1. clicked' = B /\ moves' = NextMove(B)
    BY <1>3 DEF PointerEvent, PtrEvent
  <2>2. HolderDecides'
    BY <2>1 DEF PointerEvent, HolderDecides, PointerTypeOK
  <2>3. CASE uinput = "open"
    <3>1. /\ down' \subseteq Keys(B)
          /\ "BTN_TOUCH" \in down' <=> "left" \in B
      <4>1. down' = (down \cup Keys(Pressed(B))) \ Keys(Released(B))
        BY <2>3 DEF PointerEvent, PtrEvent
      <4>2. /\ clicked \subseteq Buttons /\ down \subseteq Keys(clicked)
            /\ Touched <=> "left" \in clicked
        BY <2>3 DEF KeysAgree, PointerTypeOK
      <4>3. B \in SUBSET Buttons
        OBVIOUS
      <4> HIDE DEF B
      <4> QED BY ONLY <4>1, <4>2, <4>3, WrittenKeys, Zenon
    <3>2. KeysAgree'
      BY <2>1, <3>1 DEF KeysAgree, Touched
    <3>3. at' \in Int \X Int
      BY <2>3, TransformIsNumeric DEF PointerEvent, PtrEvent, PointerTypeOK
    <3>4. down' \subseteq Keys(Buttons)
      BY <3>1 DEF Keys
    <3>5. PointerTypeOK'
      BY <1>1, <2>1, <3>3, <3>4 DEF PointerEvent, layout, PointerTypeOK
    <3> QED BY <2>2, <2>3, <3>2, <3>5 DEF PointerEvent
  <2>4. CASE uinput = "closed"
    <3>1. UNCHANGED device
      BY <2>4 DEF PointerEvent, PtrEvent
    <3>2. PointerTypeOK'
      BY <1>1, <2>1, <3>1 DEF PointerEvent, layout, device, PointerTypeOK
    <3> QED BY <2>2, <2>4, <3>1, <3>2 DEF PointerEvent, KeysAgree, device
  <2> QED BY <1>3, <2>3, <2>4 DEF PointerTypeOK
<1> QED BY <1>2, <1>3

LEMMA StepIInv == IInv /\ [Next]_vars => IInv'
<1> SUFFICES ASSUME IInv, [Next]_vars PROVE IInv'
  OBVIOUS
<1> USE DEF IInv
<1>1. CASE UNCHANGED vars
  BY <1>1 DEF vars, flags, device, layout, PointerTypeOK, KeysAgree,
     HolderDecides, Touched
<1>2. CASE CleanupInput
  BY <1>2 DEF CleanupInput, flags, layout, PointerTypeOK, KeysAgree,
     HolderDecides
<1>3. ASSUME NEW c \in Clients, Connect(c) PROVE IInv'
  <2>1. pointerClient # c
    BY <1>3, PointerAssumption DEF Connect, PointerTypeOK
  <2>2. HolderDecides'
    BY <1>3, <2>1 DEF Connect, flags, HolderDecides, PointerTypeOK
  <2> QED
    BY <1>3, <2>2 DEF Connect, flags, device, layout, PointerTypeOK,
       KeysAgree, Touched
<1>4. ASSUME NEW c \in Clients, Leave(c) PROVE IInv'
  <2>1. PointerTypeOK'
    <3>1. {} \in Masks
      BY DEF Masks
    <3> QED
      BY <1>4, <3>1, PointerAssumption
         DEF Leave, flags, device, layout, PointerTypeOK
  <2>2. HolderDecides'
    BY <1>4, PointerAssumption DEF Leave, flags, PointerTypeOK, HolderDecides
  <2> QED
    BY <1>4, <2>1, <2>2 DEF Leave, flags, device, KeysAgree, Touched
<1>5. ASSUME NEW c \in Clients, Point(c) PROVE IInv'
  BY <1>5, PointerEventIInv DEF Point
<1>6. ASSUME NEW c \in Clients, TypeKey(c) PROVE IInv'
  <2>1. down' \subseteq down /\ ("BTN_TOUCH" \in down' <=> "BTN_TOUCH" \in down)
    BY <1>6 DEF TypeKey
  <2> QED
    BY <1>6, <2>1 DEF TypeKey, flags, layout, PointerTypeOK, KeysAgree,
       HolderDecides, Touched
<1>7. ASSUME NEW c \in Clients, Rotate(c) PROVE IInv'
  <2>1. PointerTypeOK'
    BY <1>7 DEF Rotate, flags, device, PointerTypeOK
  <2> QED
    BY <1>7, <2>1 DEF Rotate, flags, device, KeysAgree, HolderDecides, Touched
<1> QED
  BY <1>1, <1>2, <1>3, <1>4, <1>5, <1>6, <1>7 DEF Next, Viewer

\* The invariant holds in every reachable state.
THEOREM Invariance == Spec => []IInv
BY InitIInv, StepIInv, PTL DEF Spec

\* The variables have their types, and the pointer is with a viewer that is
\* connected.
THEOREM PointerTyped == Spec => []PointerTypeOK
<1>1. IInv => PointerTypeOK
  BY DEF IInv
<1> QED BY <1>1, Invariance, PTL

\* ptrEvent never leaves a key of the device down that no flag stands for, and
\* touches it exactly while leftClicked is set.
THEOREM FlagsAndKeysAgree == Spec => []KeysAgree
<1>1. IInv => KeysAgree
  BY DEF IInv
<1> QED BY <1>1, Invariance, PTL

\* The static flags of ptrEvent are those of the viewer that has the pointer.
THEOREM FlagsAreOfTheHolder == Spec => []HolderDecides
<1>1. IInv => HolderDecides
  BY DEF IInv
<1> QED BY <1>1, Invariance, PTL

-----------------------------------------------------------------------------
(* What a step may not do. *)

\* Nobody ends the touch of the viewer that has the pointer.
THEOREM HolderKeepsItsTouch == Spec => TouchIsHeld
<1>1. ASSUME [Next]_vars, NEW c \in Clients,
             pointerClient = c, "left" \in lastPtrButtons[c],
             Touched, ~Touched', IInv
      PROVE  "left" \notin lastPtrButtons'[c] \/ uinput' = "closed"
  <2>1. CASE CleanupInput
    BY <2>1 DEF CleanupInput
  <2>2. CASE \E d \in Clients : Point(d)
    <3>1. PICK d \in Clients, M \in Masks, p \in Places :
              PointerEvent(d, M, p)
      BY <2>2 DEF Point
    <3>2. d = c
      BY <1>1, <3>1, PointerAssumption DEF PointerEvent
    <3>3. uinput = "open"
      BY <1>1, <3>1 DEF PointerEvent, PtrEvent, device, Touched, IInv,
         PointerTypeOK
    <3>4. clicked' = M \cap Buttons /\ uinput' = "open"
      BY <3>1, <3>3 DEF PointerEvent, PtrEvent
    <3>5. "left" \notin M \cap Buttons
      <4>1. IInv'
        BY <3>1, <1>1, PointerEventIInv
      <4> QED BY <1>1, <3>4, <4>1 DEF IInv, KeysAgree
    <3>6. lastPtrButtons'[c] = M
      BY <1>1, <3>1, <3>2 DEF PointerEvent, IInv, PointerTypeOK
    <3> QED BY <3>5, <3>6 DEF Buttons
  <2>3. ASSUME NEW d \in Clients,
               Connect(d) \/ Leave(d) \/ TypeKey(d) \/ Rotate(d)
        PROVE  FALSE
    BY <1>1, <2>3 DEF Connect, Leave, TypeKey, Rotate, device, Touched
  <2>4. CASE UNCHANGED vars
    BY <1>1, <2>4 DEF vars, device, Touched
  <2> QED BY <1>1, <2>1, <2>2, <2>3, <2>4 DEF Next, Viewer
<1>2. IInv /\ [Next]_vars =>
        [\A c \in Clients :
            (/\ pointerClient = c /\ "left" \in lastPtrButtons[c]
             /\ Touched /\ ~Touched')
            => "left" \notin lastPtrButtons'[c] \/ uinput' = "closed"]_vars
  BY <1>1
<1> QED BY <1>2, Invariance, PTL DEF Spec, TouchIsHeld

\* A pixel takes a part of the range that begins before it ends.
LEMMA PixelHasWidth ==
    ASSUME NEW i \in Nat, NEW n \in Nat \ {0}
    PROVE  /\ Scaled(i, n) = Start(i, n)
           /\ Scaled(i + 1, n) = Start(i + 1, n)
           /\ Start(i, n) <= Start(i + 1, n)
<1>1. /\ Scaled(i, n) = Start(i, n)
      /\ Scaled(i + 1, n) = Start(i + 1, n)
  BY DEF Scaled, Start
<1> DEFINE lower == (i * Scale) \div n
           upper == ((i + 1) * Scale) \div n
<1>2. /\ lower \in Int /\ upper \in Int
      /\ n * lower <= i * Scale
      /\ (i + 1) * Scale < n * (upper + 1)
  BY Z3 DEF Scale
<1> HIDE DEF lower, upper
<1>3. n * lower < n * (upper + 1)
  BY <1>2 DEF Scale
<1>4. lower < upper + 1
  BY <1>2, <1>3
<1>5. lower <= upper
  BY <1>2, <1>4
<1> QED BY <1>1, <1>2, <1>5 DEF Start, lower, upper, Scale

\* transformTouchCoordinates undoes what update_screen does.
LEMMA TransformHits ==
    ASSUME PointerTypeOK, NEW q \in Panel, NEW p \in Whole,
           Turned(width, height, rotation, q) = p
    PROVE  LiesOn(TransformTouchCoordinates(p), q)
<1>1. PICK i \in 0..PanelWidth - 1, j \in 0..PanelHeight - 1 : q = <<i, j>>
  BY DEF Panel
<1>2. /\ PanelWidth \in Nat \ {0} /\ PanelHeight \in Nat \ {0}
      /\ i \in Nat /\ j \in Nat
      /\ q[1] = i /\ q[2] = j
  BY <1>1, PointerAssumption
<1>3. /\ Scaled(i, PanelWidth) = Start(i, PanelWidth)
      /\ Scaled(i + 1, PanelWidth) = Start(i + 1, PanelWidth)
      /\ Start(i, PanelWidth) <= Start(i + 1, PanelWidth)
      /\ Scaled(j, PanelHeight) = Start(j, PanelHeight)
      /\ Scaled(j + 1, PanelHeight) = Start(j + 1, PanelHeight)
      /\ Start(j, PanelHeight) <= Start(j + 1, PanelHeight)
  BY <1>2, PixelHasWidth
<1>4. \A x \in {Start(i, PanelWidth), Start(i + 1, PanelWidth)},
         y \in {Start(j, PanelHeight), Start(j + 1, PanelHeight)} :
            LiesOn(<<x, y>>, q)
  <2> SUFFICES ASSUME NEW x \in {Start(i, PanelWidth), Start(i + 1, PanelWidth)},
                      NEW y \in {Start(j, PanelHeight), Start(j + 1, PanelHeight)}
               PROVE  LiesOn(<<x, y>>, q)
    OBVIOUS
  <2>1. /\ Start(i, PanelWidth) <= x /\ x <= Start(i + 1, PanelWidth)
        /\ Start(j, PanelHeight) <= y /\ y <= Start(j + 1, PanelHeight)
    <3>1. /\ Start(i, PanelWidth) \in Int /\ Start(i + 1, PanelWidth) \in Int
          /\ Start(j, PanelHeight) \in Int /\ Start(j + 1, PanelHeight) \in Int
      BY <1>2 DEF Start, Scale
    <3>2. x = Start(i, PanelWidth) \/ x = Start(i + 1, PanelWidth)
      OBVIOUS
    <3>3. y = Start(j, PanelHeight) \/ y = Start(j + 1, PanelHeight)
      OBVIOUS
    <3> QED BY ONLY <1>3, <3>1, <3>2, <3>3
  <2>2. <<x, y>>[1] = x /\ <<x, y>>[2] = y
    OBVIOUS
  <2> QED BY <1>2, <2>1, <2>2 DEF LiesOn
<1>5. CASE rotation = 0
  BY <1>2, <1>3, <1>4, <1>5 DEF TransformTouchCoordinates, Turned,
     PointerTypeOK
<1>6. CASE rotation = 90
  <2>1. width = PanelHeight /\ height = PanelWidth
    BY <1>6 DEF PointerTypeOK
  <2>2. p[2] = i /\ width - p[1] = j + 1
    BY <1>2, <1>6, <2>1 DEF Turned
  <2>3. TransformTouchCoordinates(p) =
            <<Scaled(i, PanelWidth), Scaled(j + 1, PanelHeight)>>
    BY <1>6, <2>1, <2>2 DEF TransformTouchCoordinates
  <2> QED BY <1>3, <1>4, <2>3
<1>7. CASE rotation = 180
  <2>1. width = PanelWidth /\ height = PanelHeight
    BY <1>7 DEF PointerTypeOK
  <2>2. width - p[1] = i + 1 /\ height - p[2] = j + 1
    BY <1>2, <1>7, <2>1 DEF Turned
  <2>3. TransformTouchCoordinates(p) =
            <<Scaled(i + 1, PanelWidth), Scaled(j + 1, PanelHeight)>>
    BY <1>7, <2>1, <2>2 DEF TransformTouchCoordinates
  <2> QED BY <1>3, <1>4, <2>3
<1>8. CASE rotation = 270
  <2>1. width = PanelHeight /\ height = PanelWidth
    BY <1>8 DEF PointerTypeOK
  <2>2. p[1] = j /\ height - p[2] = i + 1
    BY <1>2, <1>8, <2>1 DEF Turned
  <2>3. TransformTouchCoordinates(p) =
            <<Scaled(i + 1, PanelWidth), Scaled(j, PanelHeight)>>
    BY <1>8, <2>1, <2>2 DEF TransformTouchCoordinates
  <2> QED BY <1>3, <1>4, <2>3
<1> QED BY <1>5, <1>6, <1>7, <1>8 DEF PointerTypeOK

\* At every rotation a touch begins and ends on the pixel pointed at.
THEOREM TouchesHit == Spec => TouchHits
<1>1. ASSUME IInv, NEW c \in Clients, NEW M \in Masks,
             NEW p \in Whole, NEW q \in Panel,
             PointerEvent(c, M, p), Touched # Touched',
             Turned(width, height, rotation, q) = p
      PROVE  LiesOn(at', q)
  <2> DEFINE B == M \cap Buttons
  <2>1. p \in Places
    BY <1>1, PointerAssumption DEF IInv, PointerTypeOK, Whole, Places, Longest
  <2>2. IInv'
    BY <1>1, <2>1, PointerEventIInv
  <2>3. uinput = "open"
    BY <1>1 DEF PointerEvent, PtrEvent, device, Touched, IInv, PointerTypeOK
  <2>4. /\ clicked' = B /\ uinput' = "open"
        /\ at' = IF Reported(B) THEN TransformTouchCoordinates(p) ELSE at
    BY <1>1, <2>3 DEF PointerEvent, PtrEvent
  <2>5. ("left" \in B) # ("left" \in clicked)
    BY <1>1, <2>2, <2>3, <2>4 DEF IInv, KeysAgree, Touched
  <2>6. at' = TransformTouchCoordinates(p)
    BY <2>4, <2>5 DEF Reported, Clicking
  <2> QED BY <1>1, <2>6, TransformHits DEF IInv
<1>2. IInv /\ [Next]_vars =>
        [\A c \in Clients, M \in Masks, p \in Whole, q \in Panel :
            (/\ Touched # Touched'
             /\ Turned(width, height, rotation, q) = p
             /\ PointerEvent(c, M, p))
            => LiesOn(at', q)]_vars
  BY <1>1
<1> QED BY <1>2, Invariance, PTL DEF Spec, TouchHits
=============================================================================
